---- MODULE Spec2Model ----
(***************************************************************************)
(* The chain engine of GIS (src/src/blockchain/chain.rs): the persistent   *)
(* store (tables blocks, domains, zones), the tip caches, the signer       *)
(* cache, block validation (check_block), chain extension and replacement  *)
(* (add_block, replace_block) and the start-up replay (check_chain).       *)
(*                                                                         *)
(* Abstractions.  A hash is the tuple of the hashed fields (so it is       *)
(* collision free) and its number of leading zero bits is the nonce the    *)
(* search stopped at.  A signature is the triple (signer, signed hash,     *)
(* tail), the tail being the 64 bits the signer election seeds from.       *)
(* Option<T> is a sequence of length 0 or 1.  The wall clock is an input   *)
(* of every validation, constrained to be no earlier than what the stored  *)
(* blocks already witnessed.                                               *)
(***************************************************************************)
EXTENDS Integers, Sequences, FiniteSets, TLC

VARIABLES
    origin,           \* Chain.origin: the configured genesis hash (Zero32 when empty)
    blocks,           \* table blocks, in id order
    domains,          \* table domains (projection rows), in insertion order
    zones,            \* table zones (projection rows), in insertion order
    last_block,       \* Chain.last_block : Option<Block>
    last_full_block,  \* Chain.last_full_block : Option<Block>
    signers,          \* Chain.signers : SignersCache
    status,           \* "running", or "panicked" once a panic! ended the process
    lastOp,           \* history: the last engine operation and its arguments
    miner,            \* struct Miner, its scheduler thread and its worker threads
    clock,            \* Utc::now().timestamp() as the miner's threads read it
    zone_names        \* Chain.zones : the set of zone names is_zone_in_blockchain keeps

vars == <<origin, blocks, domains, zones, last_block, last_full_block, signers,
          status, lastOp, miner, clock, zone_names>>

\* What the engine's operations on blocks leave alone.
minerVars == <<miner, clock, zone_names>>

-----------------------------------------------------------------------------
(* Program constants (src/src/commons/constants.rs).                        *)

CHAIN_VERSION == 0
ZONE_DIFFICULTY == 28
ZONE_MIN_DIFFICULTY == 22
SIGNER_DIFFICULTY == 16
KEYSTORE_DIFFICULTY == 23
BLOCK_SIGNERS_START == 0
BLOCK_SIGNERS_ALL == 7
BLOCK_SIGNERS_MIN == 2
BLOCK_SIGNERS_START_RANDOM == 180
NEW_DOMAINS_INTERVAL == 86400
DOMAIN_LIFETIME == 31536000

\* u32::MAX, the difficulty nothing reaches.  TLC's integers are 32-bit signed,
\* so the model keeps the largest value TLC has; every difficulty and every
\* count of leading zero bits of the model is far below it.
U32_MAX == 2147483647

\* The tolerance of check_block for timestamps ahead of the wall clock.
FUTURE_TOLERANCE == 60

-----------------------------------------------------------------------------
(* Bounds of the model.                                                     *)

\* The store never grows beyond this many blocks.
MaxHeight == 3

-----------------------------------------------------------------------------
(* Bytes, hashes, keys, signatures.                                         *)

None == <<>>
Some(x) == <<x>>
IsSome(o) == o # <<>>
Unwrap(o) == o[1]

\* Bytes::default(): the empty byte string.
EmptyBytes == <<>>
\* Bytes::zero32(): thirty-two zero bytes, the origin of an empty setting.
Zero32 == <<0>>
is_zero(bytes) == bytes = Zero32 \/ bytes = EmptyBytes

\* Every key of the model but this one passes the strength check.
WeakKey == 0
check_public_key_strength(key, difficulty) ==
    (IF key = WeakKey THEN 0 ELSE KEYSTORE_DIFFICULTY) >= difficulty

\* The bytes a block is hashed over: every field but hash and signature.
BlockHash(b) ==
    <<b.index, b.timestamp, b.version, b.difficulty, b.nonce,
      b.prev_block_hash, b.pub_key, b.transaction>>

\* Leading zero bits of a hash: what the nonce search reached.
hash_difficulty(hash) == IF Len(hash) < 5 THEN 0 ELSE hash[5]

check_block_hash(b) == b.hash = BlockHash(b)

check_block_signature(b) ==
    /\ b.signature.by = b.pub_key
    /\ b.signature.of = b.hash

get_tail_u64(signature) == signature.tail

-----------------------------------------------------------------------------
(* Transactions.                                                            *)

is_some_transaction(b) == IsSome(b.transaction)

\* Transaction::get_domain_data: the payload of a domain transaction.
get_domain_data(t) == IF t.class = "domain" THEN Some(t.data) ELSE None

\* A zone transaction: data = ZoneData {name, difficulty, yggdrasil}.
ZoneTx(identity, name, difficulty, yggdrasil, key) ==
    [class |-> "zone", identity |-> identity,
     data |-> [name |-> name, difficulty |-> difficulty, yggdrasil |-> yggdrasil],
     pub_key |-> key]

\* A domain transaction: data = DomainData {zone, records}; of the records
\* the model keeps whether all of them pass is_yggdrasil_record.
DomainTx(identity, zone, ygg_records, key) ==
    [class |-> "domain", identity |-> identity,
     data |-> [zone |-> zone, ygg_records |-> ygg_records],
     pub_key |-> key]

-----------------------------------------------------------------------------
(* Store queries.                                                           *)

get_height == IF IsSome(last_block) THEN Unwrap(last_block).index ELSE 0

\* SQL_GET_BLOCK_BY_ID
get_block(index) ==
    IF index \in 1..Len(blocks) THEN Some(blocks[index]) ELSE None

\* SQL_GET_LAST_BLOCK
load_last_block == IF Len(blocks) = 0 THEN None ELSE Some(blocks[Len(blocks)])

\* SQL_GET_LAST_FULL_BLOCK / SQL_GET_LAST_FULL_BLOCK_FOR_KEY on the store
\* alone: the highest block below `before` that carries a transaction
\* (and, with a key, was mined by it).
RECURSIVE QueryLastFull(_, _)
QueryLastFull(below, key) ==
    IF below < 1 THEN None
    ELSE IF /\ is_some_transaction(blocks[below])
            /\ (key = None \/ blocks[below].pub_key = Unwrap(key))
         THEN Some(blocks[below])
         ELSE QueryLastFull(below - 1, key)

Min(a, b) == IF a < b THEN a ELSE b

\* Chain::get_last_full_block, reading the cache `cached` (Chain.last_full_block)
\* before the store.
get_last_full_block_in(cached, before, key) ==
    IF /\ IsSome(cached)
       /\ Unwrap(cached).index < before
       /\ (key = None \/ Unwrap(cached).pub_key = Unwrap(key))
    THEN cached
    ELSE QueryLastFull(Min(before - 1, Len(blocks)), key)

Table(zone) == IF zone THEN zones ELSE domains

\* The rows SQL_GET_{ZONE,DOMAIN}_PUBLIC_KEY_BY_ID selects before LIMIT 1.
IdRows(height, identity, zone) ==
    LET Match(row) == row.id < height /\ row.identity = identity
    IN  SelectSeq(Table(zone), Match)

\* Chain::is_id_available: the statement ends with LIMIT 1, so the loop sees
\* the first matching row only.
is_id_available(height, identity, public_key, zone) ==
    LET rows == IdRows(height, identity, zone)
    IN  rows = <<>> \/ rows[1].pub_key = public_key

\* Chain::is_id_in_blockchain
is_id_in_blockchain(height, id, zone) == IdRows(height, id, zone) # <<>>

\* Chain::get_zones: one ZoneData per name, a later row replacing an earlier.
get_zones ==
    {zones[i].data : i \in {j \in 1..Len(zones) :
        \A k \in (j + 1)..Len(zones) : zones[k].data.name # zones[j].data.name}}

\* Chain::get_difficulty_for_transaction
get_difficulty_for_transaction(t) ==
    IF t.class = "domain"
    THEN LET named == {z \in get_zones : z.name = t.data.zone}
         IN  IF named = {} THEN U32_MAX ELSE (CHOOSE z \in named : TRUE).difficulty
    ELSE IF t.class = "zone" THEN ZONE_DIFFICULTY
    ELSE U32_MAX

-----------------------------------------------------------------------------
(* Signer election.                                                         *)

EmptyCache == [index |-> 0, signers |-> <<>>]

has_signers_for(cache, index) == cache.index = index /\ cache.signers # <<>>

InSeq(x, s) == \E i \in 1..Len(s) : s[i] = x

\* The loop of get_block_signers from `count` on, `result` being the keys
\* found so far.  While the 64-bit product does not wrap,
\* index(count) = (tail * count) mod window + 1 has a period that divides
\* window, so `window` rounds visit every block the loop can visit: when
\* they end with fewer than BLOCK_SIGNERS_ALL keys the loop does not return
\* ("hang").  An empty window divides by zero ("panic").
RECURSIVE ElectionLoop(_, _, _)
ElectionLoop(block, count, result) ==
    LET window == block.index - 1
        index == ((get_tail_u64(block.signature) * count) % window) + 1
        b == get_block(index)
        found == /\ IsSome(b)
                 /\ Unwrap(b).pub_key # block.pub_key
                 /\ ~InSeq(Unwrap(b).pub_key, result)
    IN  IF Len(result) >= BLOCK_SIGNERS_ALL THEN [end |-> "return", signers |-> result]
        ELSE IF window = 0 THEN [end |-> "panic", signers |-> result]
        ELSE IF count > window THEN [end |-> "hang", signers |-> result]
        ELSE ElectionLoop(block, count + 1,
                          IF found THEN Append(result, Unwrap(b).pub_key) ELSE result)

\* The end of get_block_signers: the elected keys are stored in the cache.
StoreSigners(block, cache, e) ==
    [end |-> e.end, signers |-> e.signers,
     cache |-> IF e.end = "return"
               THEN [index |-> block.index, signers |-> e.signers]
               ELSE cache]

\* Chain::get_block_signers with the cache `cache`: how the call ends, the
\* vector it returns and the cache it leaves.
get_block_signers(block, cache) ==
    IF block.index < BLOCK_SIGNERS_START \/ get_height < block.index
    THEN [end |-> "return", signers |-> <<>>, cache |-> cache]
    ELSE IF ~is_some_transaction(block)
    THEN [end |-> "panic", signers |-> <<>>, cache |-> cache]
    ELSE IF has_signers_for(cache, block.index)
    THEN [end |-> "return", signers |-> cache.signers, cache |-> cache]
    ELSE StoreSigners(block, cache, ElectionLoop(block, 1, <<>>))

\* The body of is_good_signer_for_block once get_block_signers ended as `s`.
SignerVerdict(block, full_block, s) ==
    LET between == (full_block.index + 1)..(block.index - 1)
    IN  [result |-> IF s.end # "return" THEN s.end
                    ELSE IF ~InSeq(block.pub_key, s.signers) THEN "false"
                    ELSE IF \E i \in between : get_block(i) = None THEN "panic"
                    ELSE IF \E i \in between : blocks[i].pub_key = block.pub_key
                         THEN "false"
                    ELSE "true",
         cache |-> s.cache]

\* Chain::is_good_signer_for_block: "true", "false", or how it fails to
\* return; and the signer cache the call leaves.
is_good_signer_for_block(block, full_block, cache) ==
    SignerVerdict(block, full_block, get_block_signers(full_block, cache))

\* get_height() - full_block.index is an unsigned subtraction.
SignCountUnderflows(full_block) == full_block.index > get_height

SignResult(result, cache, underflow) ==
    [result |-> result, cache |-> cache, underflow |-> underflow]

AsSigner(s) == SignResult(s.result, s.cache, FALSE)

\* Chain::is_good_sign_block.  A payload block leaves by the first return.
\* When the subtraction underflows, a build without overflow checks goes on
\* with a count above every constant: that is the result given here, and
\* the field underflow tells the callers that a checked build panics instead.
is_good_sign_block(block, lfb, cache) ==
    LET full_block == Unwrap(lfb)
        sign_count == get_height - full_block.index
    IN  IF is_some_transaction(block) THEN SignResult("true", cache, FALSE)
        ELSE IF lfb = None THEN SignResult("true", cache, FALSE)
        ELSE IF SignCountUnderflows(full_block) THEN SignResult("true", cache, TRUE)
        ELSE IF sign_count < BLOCK_SIGNERS_MIN
             THEN IF block.index > full_block.index /\ is_some_transaction(block)
                  THEN SignResult("false", cache, FALSE)
                  ELSE AsSigner(is_good_signer_for_block(block, full_block, cache))
        ELSE IF sign_count < BLOCK_SIGNERS_ALL /\ ~is_some_transaction(block)
             THEN AsSigner(is_good_signer_for_block(block, full_block, cache))
        ELSE SignResult("true", cache, FALSE)

-----------------------------------------------------------------------------
(* check_block.                                                             *)

\* Block::is_genesis
is_genesis(block) == block.index = 1

\* A difficulty rule that asks SIGNER_DIFFICULTY of every signing block.
RequiredDifficultyFlat(block) ==
    IF ~is_some_transaction(block) THEN SIGNER_DIFFICULTY
    ELSE get_difficulty_for_transaction(Unwrap(block.transaction))

\* The difficulty check_block asks of a block (its local `difficulty`).
RequiredDifficulty(block) ==
    IF ~is_some_transaction(block)
    THEN IF block.index = 1 THEN ZONE_DIFFICULTY ELSE SIGNER_DIFFICULTY
    ELSE get_difficulty_for_transaction(Unwrap(block.transaction))

\* A check_block without the previous-hash gate.
IsRewindNever(block) == FALSE

\* The previous-hash gate: a stored block at index - 1 with another hash.
IsRewind(block) ==
    LET prev_block == get_block(block.index - 1)
    IN  IsSome(prev_block) /\ block.prev_block_hash # Unwrap(prev_block).hash

\* The ownership gate of a payload block.
current_height(lb) == IF lb = None THEN 0 ELSE Unwrap(lb).index

IsSpoof(block, lb) ==
    LET t == Unwrap(block.transaction)
        is_domain_available ==
            is_id_available(current_height(lb), t.identity, block.pub_key, FALSE)
        is_zone_available ==
            is_id_available(current_height(lb), t.identity, block.pub_key, TRUE)
    IN  ~is_domain_available \/ ~is_zone_available

\* A cooldown gate that compares the two timestamps without the interval.
IsTooEarlyNoInterval(block, cached) ==
    LET t == Unwrap(block.transaction)
        last == get_last_full_block_in(cached, block.index, Some(block.pub_key))
        new_id == ~is_id_in_blockchain(block.index, t.identity, FALSE)
    IN  /\ IsSome(last)
        /\ Unwrap(last).index < block.index
        /\ new_id
        /\ Unwrap(last).timestamp > block.timestamp

\* The cooldown gate of a payload block.
IsTooEarly(block, cached) ==
    LET t == Unwrap(block.transaction)
        last == get_last_full_block_in(cached, block.index, Some(block.pub_key))
        new_id == ~is_id_in_blockchain(block.index, t.identity, FALSE)
    IN  /\ IsSome(last)
        /\ Unwrap(last).index < block.index
        /\ new_id
        /\ Unwrap(last).timestamp + NEW_DOMAINS_INTERVAL > block.timestamp

\* The Yggdrasil-only gate of a domain block.
IsClearnetInYggdrasil(block) ==
    LET block_data == get_domain_data(Unwrap(block.transaction))
    IN  /\ IsSome(block_data)
        /\ \E z \in get_zones :
              /\ z.name = Unwrap(block_data).zone
              /\ z.yggdrasil
              /\ ~Unwrap(block_data).ygg_records

\* A gate order that looks at the key before it looks at the index.
EarlyGatesStrengthFirst(block, lb, now, cached) ==
    IF block.version > CHAIN_VERSION THEN "Bad"
    ELSE IF block.timestamp > now + FUTURE_TOLERANCE THEN "Bad"
    ELSE IF ~check_public_key_strength(block.pub_key, KEYSTORE_DIFFICULTY) THEN "Bad"
    ELSE IF IsSome(lb) /\ block.index > Unwrap(lb).index + 1 THEN "Future"
    ELSE IF block.difficulty < RequiredDifficulty(block) THEN "Bad"
    ELSE IF hash_difficulty(block.hash) < block.difficulty THEN "Bad"
    ELSE IF ~check_block_hash(block) THEN "Bad"
    ELSE IF ~check_block_signature(block) THEN "Bad"
    ELSE IF IsRewind(block) THEN "Rewind"
    ELSE IF is_some_transaction(block) /\ IsSpoof(block, lb) THEN "Bad"
    ELSE IF is_some_transaction(block) /\ IsTooEarly(block, cached) THEN "Bad"
    ELSE IF is_some_transaction(block) /\ IsClearnetInYggdrasil(block) THEN "Bad"
    ELSE ""

\* The gates of check_block before the match on last_block, in order:
\* the verdict of the first that fails, "" when all pass.
EarlyGates(block, lb, now, cached) ==
    IF block.version > CHAIN_VERSION THEN "Bad"
    ELSE IF block.timestamp > now + FUTURE_TOLERANCE THEN "Bad"
    ELSE IF IsSome(lb) /\ block.index > Unwrap(lb).index + 1 THEN "Future"
    ELSE IF ~check_public_key_strength(block.pub_key, KEYSTORE_DIFFICULTY) THEN "Bad"
    ELSE IF block.difficulty < RequiredDifficulty(block) THEN "Bad"
    ELSE IF hash_difficulty(block.hash) < block.difficulty THEN "Bad"
    ELSE IF ~check_block_hash(block) THEN "Bad"
    ELSE IF ~check_block_signature(block) THEN "Bad"
    ELSE IF IsRewind(block) THEN "Rewind"
    ELSE IF is_some_transaction(block) /\ IsSpoof(block, lb) THEN "Bad"
    ELSE IF is_some_transaction(block) /\ IsTooEarly(block, cached) THEN "Bad"
    ELSE IF is_some_transaction(block) /\ IsClearnetInYggdrasil(block) THEN "Bad"
    ELSE ""

Verdict(quality, cache, underflow) ==
    [quality |-> quality, cache |-> cache, underflow |-> underflow]

\* A verdict given after is_good_sign_block ended as `sign`.
Signed(quality, sign) == Verdict(quality, sign.cache, sign.underflow)

\* A match arm that takes every block at or below the tip for a new one.
StoredSlotGood(block, last, sign) == Signed("Good", sign)

\* The arm of the match for a block at or below the tip.
StoredSlot(block, last, sign) ==
    LET my_block == get_block(block.index)
    IN  IF block.index = last.index /\ last.hash = block.hash
        THEN Signed("Twin", sign)
        ELSE IF IsSome(my_block)
             THEN IF Unwrap(my_block).hash # block.hash
                  THEN Signed("Fork", sign) ELSE Signed("Twin", sign)
        ELSE Signed("Good", sign)

\* A match on last_block that holds a genesis to the configured origin even
\* when none is configured.
TipVerdictStrictOrigin(block, lb, cache, sign) ==
    LET last == Unwrap(lb)
    IN  IF lb = None
        THEN IF ~is_genesis(block) THEN Verdict("Future", cache, FALSE)
             ELSE IF block.hash # origin THEN Verdict("Bad", cache, FALSE)
             ELSE Verdict("Good", cache, FALSE)
        ELSE IF block.timestamp < last.timestamp /\ block.index > last.index
             THEN Verdict("Bad", cache, FALSE)
        ELSE IF last.index + 1 < block.index THEN Verdict("Future", cache, FALSE)
        ELSE IF block.index > BLOCK_SIGNERS_START /\ sign.result # "true"
             THEN Signed(IF sign.result = "false" THEN "Bad"
                         ELSE IF sign.result = "hang" THEN "Hang" ELSE "Panic", sign)
        ELSE IF block.index <= last.index THEN StoredSlot(block, last, sign)
        ELSE IF block.prev_block_hash # last.hash THEN Signed("Bad", sign)
        ELSE Signed("Good", sign)

\* The match on last_block that ends check_block, `sign` being what
\* is_good_sign_block gives where the match calls it.
TipVerdict(block, lb, cache, sign) ==
    LET last == Unwrap(lb)
    IN  IF lb = None
        THEN IF ~is_genesis(block) THEN Verdict("Future", cache, FALSE)
             ELSE IF ~is_zero(origin) /\ block.hash # origin
                  THEN Verdict("Bad", cache, FALSE)
             ELSE Verdict("Good", cache, FALSE)
        ELSE IF block.timestamp < last.timestamp /\ block.index > last.index
             THEN Verdict("Bad", cache, FALSE)
        ELSE IF last.index + 1 < block.index THEN Verdict("Future", cache, FALSE)
        ELSE IF block.index > BLOCK_SIGNERS_START /\ sign.result # "true"
             THEN Signed(IF sign.result = "false" THEN "Bad"
                         ELSE IF sign.result = "hang" THEN "Hang" ELSE "Panic", sign)
        ELSE IF block.index <= last.index THEN StoredSlot(block, last, sign)
        ELSE IF block.prev_block_hash # last.hash THEN Signed("Bad", sign)
        ELSE Signed("Good", sign)

TipRules(block, lb, lfb, cache) ==
    TipVerdict(block, lb, cache, is_good_sign_block(block, lfb, cache))

\* check_block once the early gates ended as `early`.
AfterGates(early, block, lb, lfb, cache) ==
    IF early # "" THEN Verdict(early, cache, FALSE)
    ELSE TipRules(block, lb, lfb, cache)

\* Chain::check_block against the context (lb, lfb) at wall time `now`, with
\* `cached` the engine's last_full_block and `cache` its signer cache:
\* the verdict ("Hang" and "Panic" when the call does not return one), the
\* signer cache the call leaves, and whether the signature count underflowed.
check_block(block, lb, lfb, now, cached, cache) ==
    AfterGates(EarlyGates(block, lb, now, cached), block, lb, lfb, cache)

\* Chain::check_new_block
check_new_block(block, now) ==
    check_block(block, last_block, last_full_block, now, last_full_block, signers)

-----------------------------------------------------------------------------
(* Mutation of the store.                                                   *)

\* The projection row of a payload block (add_transaction_to_table).
RowOf(index, timestamp, t) ==
    [id |-> index, timestamp |-> timestamp, identity |-> t.identity,
     data |-> t.data, pub_key |-> t.pub_key]

\* SQL_TRUNCATE_*: the rows with id < index.
Keep(table, index) ==
    LET Below(row) == row.id < index
    IN  SelectSeq(table, Below)

KeepBlocks(table, index) ==
    LET Below(b) == b.index < index
    IN  SelectSeq(table, Below)

\* An add_block that takes every block for the last payload block.
add_block_always_full(block, bs, ds, zs, lfb) ==
    LET inserted == block.index = Len(bs) + 1
        t == Unwrap(block.transaction)
        row == RowOf(block.index, block.timestamp, t)
        payload == is_some_transaction(block)
    IN  [blocks |-> IF inserted THEN Append(bs, block) ELSE bs,
         domains |-> IF inserted /\ payload /\ t.class = "domain"
                     THEN Append(ds, row) ELSE ds,
         zones |-> IF inserted /\ payload /\ t.class = "zone"
                   THEN Append(zs, row) ELSE zs,
         last_block |-> Some(block),
         last_full_block |-> Some(block)]

\* Chain::add_block on the tables (bs, ds, zs): the state it leaves.  The
\* insert into blocks succeeds when the id is the next free one; only then
\* is the projection row written.
add_block(block, bs, ds, zs, lfb) ==
    LET inserted == block.index = Len(bs) + 1
        t == Unwrap(block.transaction)
        row == RowOf(block.index, block.timestamp, t)
        payload == is_some_transaction(block)
    IN  [blocks |-> IF inserted THEN Append(bs, block) ELSE bs,
         domains |-> IF inserted /\ payload /\ t.class = "domain"
                     THEN Append(ds, row) ELSE ds,
         zones |-> IF inserted /\ payload /\ t.class = "zone"
                   THEN Append(zs, row) ELSE zs,
         last_block |-> Some(block),
         last_full_block |-> IF payload THEN Some(block) ELSE lfb]

\* A replace_block whose truncation leaves the table domains alone.
replace_block_keeping_domains(block) ==
    add_block(block, KeepBlocks(blocks, block.index), domains,
              Keep(zones, block.index), last_full_block)

\* Chain::replace_block: clear the signer cache, truncate the three tables
\* from block.index, add the block.
replace_block(block) ==
    add_block(block, KeepBlocks(blocks, block.index), Keep(domains, block.index),
              Keep(zones, block.index), last_full_block)

-----------------------------------------------------------------------------
(* check_chain.                                                             *)

LoopEnd(how, at, cached, cache) ==
    [end |-> how, truncate_at |-> at, last_full_block |-> cached, signers |-> cache]

\* The loop of check_chain from `id` on.  lb and lfb are its locals
\* last_block and last_full_block, cached is Chain.last_full_block (which the
\* loop overwrites) and cache the signer cache.  It ends "done" (truncate_at
\* is the index it truncated from, 0 when none), or in a panic or a hang.
\* CheckStep is the part of an iteration that follows check_block's verdict c.
RECURSIVE CheckLoop(_, _, _, _, _, _)
RECURSIVE CheckStep(_, _, _, _, _, _)
CheckLoop(id, lb, lfb, now, cached, cache) ==
    IF id > get_height THEN LoopEnd("done", 0, cached, cache)
    ELSE IF id > Len(blocks) THEN LoopEnd("panic", 0, cached, cache)
    ELSE IF blocks[id].index = 1
         THEN IF blocks[id].hash # origin THEN LoopEnd("panic", 0, cached, cache)
              ELSE CheckLoop(id + 1, Some(blocks[id]), lfb, now, cached, cache)
    ELSE CheckStep(blocks[id], lfb, now, cached, cache,
                   check_block(blocks[id], lb, lfb, now, cached, cache))

CheckStep(block, lfb, now, cached, cache, c) ==
    IF c.quality = "Hang" THEN LoopEnd("hang", 0, cached, c.cache)
    ELSE IF c.quality = "Panic" THEN LoopEnd("panic", 0, cached, c.cache)
    ELSE IF c.quality # "Good" THEN LoopEnd("done", block.index, cached, c.cache)
    ELSE IF is_some_transaction(block)
         THEN CheckLoop(block.index + 1, Some(block), Some(block), now,
                        Some(block), c.cache)
    ELSE CheckLoop(block.index + 1, Some(block), lfb, now, cached, c.cache)

\* Where check_chain(count) starts.
CheckStart(count) ==
    IF get_height > count THEN get_height - count + 1 ELSE 1

\* The end of check_chain once its loop ended as `loop`: the tables after
\* the truncation, last_block reloaded, and last_full_block as
\* get_last_full_block(MAX, None) gives it, which reads the cache first.
AfterLoop(loop) ==
    LET cut == loop.truncate_at > 0
        bs == IF cut THEN KeepBlocks(blocks, loop.truncate_at) ELSE blocks
        full == {i \in 1..Len(bs) : is_some_transaction(bs[i])}
    IN  [end |-> loop.end,
         blocks |-> bs,
         domains |-> IF cut THEN Keep(domains, loop.truncate_at) ELSE domains,
         zones |-> IF cut THEN Keep(zones, loop.truncate_at) ELSE zones,
         last_block |-> IF Len(bs) = 0 THEN None ELSE Some(bs[Len(bs)]),
         last_full_block |->
             IF IsSome(loop.last_full_block) THEN loop.last_full_block
             ELSE IF full = {} THEN None
             ELSE Some(bs[CHOOSE i \in full : \A j \in full : j <= i]),
         signers |-> loop.signers]

\* Chain::check_chain(count) at wall time `now`: how it ends and the state
\* it leaves.
check_chain(count, now) ==
    LET start == CheckStart(count)
        lb0 == IF start > 1 THEN get_block(start - 1) ELSE None
        lfb0 == IF lb0 = None THEN None
                ELSE IF is_some_transaction(Unwrap(lb0)) THEN lb0
                ELSE get_last_full_block_in(last_full_block, Unwrap(lb0).index, None)
    IN  AfterLoop(CheckLoop(start, lb0, lfb0, now, last_full_block, signers))

-----------------------------------------------------------------------------
(* The miner (src/src/miner.rs): its structures.                            *)

\* struct MineJob
MineJob(start, block, keystore) ==
    [start |-> start, block |-> block, keystore |-> keystore]

is_full(job) == IsSome(job.block.transaction)
is_signing(job) == job.block.transaction = None
is_due(job, now) == job.start = 0 \/ job.start < now

\* struct MinerState, a field of the context
MinerState(mining, full) == [mining |-> mining, full |-> full]

\* Miner::new, before start_mining_thread.
\*   jobs, mining,     the fields of the struct
\*   running
\*   current_job       the local of run_main_loop
\*   sched             where the scheduler thread stands: "new" not spawned,
\*                     "spawned" before the first statement of run_main_loop,
\*                     "loop" at the test of its loop, "jobs" in the branch
\*                     without a current job with the lock of jobs, "wait"
\*                     in wait_timeout, "drain" in the sleep between clearing
\*                     and setting `mining` (it holds the lock of jobs
\*                     there), "exited" behind the loop
\*   main              where the main thread stands: "start" before
\*                     start_mining_thread, "started" behind it, "genesis" in
\*                     create_genesis_if_needed with the lock of the context,
\*                     "done" behind it
\*   quit              history: Miner::stop has been called
\*   threads           the worker threads mine_internal spawned that have
\*                     not ended
\*   attempts          how many times mine_internal was called
\*   miner_state       context.miner_state
\*   workers           context.settings.mining.threads
\*   appended          history: the attempts whose workers appended a block
\*   cancelled         history: the attempts the scheduler cancelled
MinerNew ==
    [jobs |-> <<>>, current_job |-> None, mining |-> FALSE, running |-> FALSE,
     sched |-> "new", main |-> "start", quit |-> FALSE,
     threads |-> {}, attempts |-> 0, miner_state |-> MinerState(FALSE, FALSE),
     appended |-> <<>>, cancelled |-> {}, workers |-> 1]

\* The miner once start_mining_thread has run and the scheduler thread
\* stands at the top of its loop, with `threads` worker threads per attempt.
MinerLooping(threads) ==
    [MinerNew EXCEPT !.workers = threads, !.running = TRUE, !.sched = "loop",
                     !.main = "started"]

\* The scheduler thread holds the lock of jobs, the main thread the lock of
\* the context.
JobsLocked == miner.sched \in {"jobs", "drain"}
ContextLocked == miner.main = "genesis"

\* The wall clock when the process starts: the stored signing blocks, of
\* timestamp 0, are older than the minute get_sign_block waits.
StartClock == 100

-----------------------------------------------------------------------------
(* Inputs.                                                                  *)

\* The wall-clock readings among `times` that a call can see.  The clock
\* never runs backwards, so a reading is no earlier than the clock was when
\* the stored blocks passed the timestamp gate.
ClockNow(times) ==
    {now \in times : \A i \in 1..Len(blocks) :
        blocks[i].timestamp <= now + FUTURE_TOLERANCE}

\* A block with its hash and signature computed as the miner computes them.
Mined(index, timestamp, version, difficulty, nonce, prev, key, transaction, tail) ==
    LET body == [index |-> index, timestamp |-> timestamp, version |-> version,
                 difficulty |-> difficulty, nonce |-> nonce,
                 prev_block_hash |-> prev, pub_key |-> key,
                 transaction |-> transaction]
        hash == BlockHash(body)
    IN  [index |-> index, timestamp |-> timestamp, version |-> version,
         difficulty |-> difficulty, nonce |-> nonce, prev_block_hash |-> prev,
         hash |-> hash, pub_key |-> key,
         signature |-> [by |-> key, of |-> hash, tail |-> tail],
         transaction |-> transaction]

\* The zone every payload of the model names, and the payloads: the zone
\* itself and a domain in it.
ZoneName == "z"
Zone(identity, key) == Some(ZoneTx(identity, ZoneName, ZONE_MIN_DIFFICULTY, FALSE, key))
Domain(identity, key) == Some(DomainTx(identity, ZoneName, TRUE, key))

\* The difficulty a miner gives a block: ZONE_DIFFICULTY to a genesis and to
\* a zone, the zone's difficulty to a domain, SIGNER_DIFFICULTY to a signing
\* block.
TemplateDifficulty(index, transaction) ==
    IF transaction = None
    THEN IF index = 1 THEN ZONE_DIFFICULTY ELSE SIGNER_DIFFICULTY
    ELSE IF Unwrap(transaction).class = "zone" THEN ZONE_DIFFICULTY
    ELSE ZONE_MIN_DIFFICULTY

\* The signature tail of the mined blocks.
Seed == 1

\* The hash the block at `index` has to chain to.
PrevHash(index) ==
    IF IsSome(get_block(index - 1)) THEN blocks[index - 1].hash ELSE EmptyBytes

\* A hash that no stored block has: what a block mined on another chain
\* points back to.
ForeignHash == Zero32

\* The previous hashes of the blocks offered for the slot `index`.  A genesis
\* is mined over the empty hash.
PrevHashes(index) ==
    IF index > 1 THEN {PrevHash(index), ForeignHash} ELSE {PrevHash(index)}

\* A mined block for the slot `index`: the nonce search stops at the
\* difficulty the block states.
Candidate(index, timestamp, prev, key, transaction) ==
    Mined(index, timestamp, CHAIN_VERSION, TemplateDifficulty(index, transaction),
          TemplateDifficulty(index, transaction), prev, key, transaction, Seed)

\* Inputs of the chain that starts empty: two keys, the identity of the zone,
\* the identity of a domain, one timestamp.
Keys == {1, 2}
Times == {0}
ZoneIdentity == 1
DomainIdentity == 2

Payloads(key) == {Zone(ZoneIdentity, key), Domain(DomainIdentity, key), None}

\* The blocks the network and the miner hand to the engine for the slots
\* `indices`.
CandidatesAt(indices) ==
    UNION {UNION {{Candidate(i, ts, p, k, t) : ts \in Times, t \in Payloads(k)}
                  : p \in PrevHashes(i), k \in Keys}
           : i \in indices}

\* One for every slot up to the one after the tip.
Candidates == CandidatesAt(1..(Len(blocks) + 1))

\* The genesis the configured origin names.
OriginBlock == Candidate(1, 0, EmptyBytes, 1, None)
Origins == {Zero32, OriginBlock.hash}

\* check_chain is called with settings.check_blocks.
CheckCounts == {1, U32_MAX}

-----------------------------------------------------------------------------
(* The engine as a state machine.                                           *)

\* Chain::new on an empty store.
Init ==
    /\ origin \in Origins
    /\ blocks = <<>>
    /\ domains = <<>>
    /\ zones = <<>>
    /\ last_block = None
    /\ last_full_block = None
    /\ signers = EmptyCache
    /\ status = "running"
    /\ lastOp = [op |-> "new"]
    /\ miner = MinerNew
    /\ clock = StartClock
    /\ zone_names = {}

\* check_new_block(block) says Good and add_block(block) follows.
AddBlockOf(candidates, times, limit) ==
    /\ status = "running"
    /\ Len(blocks) < limit
    /\ \E block \in candidates, now \in ClockNow(times) :
          \E c \in {check_new_block(block, now)} :
              /\ c.quality = "Good"
              /\ \E a \in {add_block(block, blocks, domains, zones, last_full_block)} :
                    /\ blocks' = a.blocks
                    /\ domains' = a.domains
                    /\ zones' = a.zones
                    /\ last_block' = a.last_block
                    /\ last_full_block' = a.last_full_block
                    /\ signers' = c.cache
                    /\ lastOp' = [op |-> "add_block", block |-> block]
                    /\ UNCHANGED minerVars
                    /\ UNCHANGED <<origin, status>>

\* check_new_block(block) says Fork and replace_block(block) follows.
ReplaceBlockOf(candidates, times) ==
    /\ status = "running"
    /\ \E block \in candidates, now \in ClockNow(times) :
          \E c \in {check_new_block(block, now)} :
              /\ c.quality = "Fork"
              /\ \E a \in {replace_block(block)} :
                    /\ blocks' = a.blocks
                    /\ domains' = a.domains
                    /\ zones' = a.zones
                    /\ last_block' = a.last_block
                    /\ last_full_block' = a.last_full_block
                    /\ signers' = EmptyCache
                    /\ lastOp' = [op |-> "replace_block", block |-> block]
                    /\ UNCHANGED minerVars
                    /\ UNCHANGED <<origin, status>>

\* check_new_block(block) gives another verdict: the block is dropped, and
\* only the signer cache may have changed.  A call that does not return
\* leaves the process hung or panicked.
CheckNewBlockOf(candidates, times) ==
    /\ status = "running"
    /\ \E block \in candidates, now \in ClockNow(times) :
        \E c \in {check_new_block(block, now)} :
            /\ c.quality \notin {"Good", "Fork"}
            /\ signers' = IF c.quality \in {"Hang", "Panic"} THEN signers ELSE c.cache
            /\ status' = IF c.quality = "Hang" THEN "hung"
                         ELSE IF c.quality = "Panic" THEN "panicked"
                         ELSE "running"
            /\ lastOp' = [op |-> "check_new_block"]
            /\ UNCHANGED minerVars
            /\ UNCHANGED <<origin, blocks, domains, zones, last_block,
                           last_full_block>>

\* A build with overflow checks panics where the signature count underflows.
UnderflowPanicOf(candidates, times) ==
    /\ status = "running"
    /\ \E block \in candidates, now \in ClockNow(times) :
        /\ check_new_block(block, now).underflow
        /\ status' = "panicked"
        /\ lastOp' = [op |-> "check_new_block"]
        /\ UNCHANGED minerVars
        /\ UNCHANGED <<origin, blocks, domains, zones, last_block,
                       last_full_block, signers>>

\* check_chain(count), as main calls it.  A run that panics or hangs leaves
\* the store as it was: it truncates only on its way to the end.
CheckChainOf(counts, times) ==
    /\ status = "running"
    /\ \E count \in counts, now \in ClockNow(times) :
        \E r \in {check_chain(count, now)} :
            /\ blocks' = IF r.end = "done" THEN r.blocks ELSE blocks
            /\ domains' = IF r.end = "done" THEN r.domains ELSE domains
            /\ zones' = IF r.end = "done" THEN r.zones ELSE zones
            /\ last_block' = IF r.end = "done" THEN r.last_block ELSE last_block
            /\ last_full_block' =
                  IF r.end = "done" THEN r.last_full_block ELSE last_full_block
            /\ signers' = IF r.end = "done" THEN r.signers ELSE signers
            /\ status' = IF r.end = "done" THEN "running"
                         ELSE IF r.end = "hang" THEN "hung" ELSE "panicked"
            /\ lastOp' = [op |-> "check_chain", count |-> count]
            /\ UNCHANGED minerVars
            /\ UNCHANGED origin

\* Chain::new on the store the process left: init_db reloads the tip caches.
Open ==
    /\ status # "running"
    /\ last_block' = load_last_block
    /\ last_full_block' = QueryLastFull(Len(blocks), None)
    /\ signers' = EmptyCache
    /\ status' = "running"
    /\ lastOp' = [op |-> "new"]
    /\ miner' = MinerNew
    /\ zone_names' = {}
    /\ UNCHANGED clock
    /\ UNCHANGED <<origin, blocks, domains, zones>>

AddBlock == AddBlockOf(Candidates, Times, MaxHeight)
ReplaceBlock == ReplaceBlockOf(Candidates, Times)
CheckNewBlock == CheckNewBlockOf(Candidates, Times)
UnderflowPanic == UnderflowPanicOf(Candidates, Times)
CheckChain == CheckChainOf(CheckCounts, Times)

Next ==
    \/ AddBlock
    \/ ReplaceBlock
    \/ CheckNewBlock
    \/ UnderflowPanic
    \/ CheckChain
    \/ Open

Spec == Init /\ [][Next]_vars

-----------------------------------------------------------------------------
(* The engine on a chain old enough to elect signers.                       *)

\* get_block_signers returns only when the window below the payload block
\* holds BLOCK_SIGNERS_ALL keys other than its miner's.  The store below is
\* what add_block leaves of a genesis and signing blocks from that many keys
\* and one more: key i mined block i.
BootLength == BLOCK_SIGNERS_ALL + 1

RECURSIVE BootChain(_)
BootChain(n) ==
    IF n = 0 THEN <<>>
    ELSE Append(BootChain(n - 1),
                Candidate(n, 0, IF n = 1 THEN EmptyBytes
                                ELSE BootChain(n - 1)[n - 1].hash, n, None))

\* Chain::new on the store that holds that chain.
InitBoot ==
    /\ origin = BootChain(1)[1].hash
    /\ blocks = BootChain(BootLength)
    /\ domains = <<>>
    /\ zones = <<>>
    /\ last_block = Some(BootChain(BootLength)[BootLength])
    /\ last_full_block = None
    /\ signers = EmptyCache
    /\ status = "running"
    /\ lastOp = [op |-> "new"]
    /\ miner = MinerNew
    /\ clock = StartClock
    /\ zone_names = {}

\* The key that mines the zone and the key that mines the domain.
ZoneKey == BootLength + 1
DomainKey == BootLength + 2

\* The tip's slot and the one after it, above the chain of signing blocks.
TipSlots == (Len(blocks)..(Len(blocks) + 1)) \ (0..BootLength)

\* Payload blocks for those slots.
PayloadCandidates ==
    {Candidate(i, 0, PrevHash(i), ZoneKey, Zone(ZoneIdentity, ZoneKey)) :
        i \in TipSlots}
    \cup {Candidate(i, 0, PrevHash(i), DomainKey, Domain(DomainIdentity, DomainKey)) :
            i \in TipSlots}

\* Signing blocks for those slots.
SigningCandidates(keys) ==
    {Candidate(i, 0, PrevHash(i), k, None) : i \in TipSlots, k \in keys}

\* How many blocks the store grows above the signing blocks while signers
\* sign, and the keys that sign: two of the elected ones.
MaxSigned == 3
SignKeys == {2, 3}

SignedCandidates == PayloadCandidates \cup SigningCandidates(SignKeys)

AddSigned == AddBlockOf(SignedCandidates, Times, BootLength + MaxSigned)
ReplaceSigned == ReplaceBlockOf(SignedCandidates, Times)
CheckNewSigned == CheckNewBlockOf(SignedCandidates, Times)
UnderflowSigned == UnderflowPanicOf(SignedCandidates, Times)
CheckChainSigned == CheckChainOf(CheckCounts, Times)

NextSigned ==
    \/ AddSigned
    \/ ReplaceSigned
    \/ CheckNewSigned
    \/ UnderflowSigned
    \/ CheckChainSigned
    \/ Open

SpecSigned == InitBoot /\ [][NextSigned]_vars

\* How many blocks the store grows above the signing blocks when only
\* payload blocks arrive.
MaxStacked == 9

AddStacked == AddBlockOf(PayloadCandidates, Times, BootLength + MaxStacked)
ReplaceStacked == ReplaceBlockOf(PayloadCandidates, Times)
CheckNewStacked == CheckNewBlockOf(PayloadCandidates, Times)
CheckChainStacked == CheckChainOf(CheckCounts, Times)

NextStacked ==
    \/ AddStacked
    \/ ReplaceStacked
    \/ CheckNewStacked
    \/ CheckChainStacked

SpecStacked == InitBoot /\ [][NextStacked]_vars

-----------------------------------------------------------------------------
(* Properties: what the store holds.                                        *)

Payload(i) == is_some_transaction(blocks[i])
TxOf(i) == Unwrap(blocks[i].transaction)
Highest(set) == CHOOSE i \in set : \A j \in set : j <= i
Lowest(set) == CHOOSE i \in set : \A j \in set : i <= j

\* The last payload block of the store.
LastFull == QueryLastFull(Len(blocks), None)

\* signers(F): the keys the election gives the payload block F.
SignersOf(F) == ElectionLoop(F, 1, <<>>)

\* C1: every stored block sits at its index, and every stored block above
\* the genesis holds the hash of the stored block one index below it.
C1_ChainLinkage ==
    \A i \in 1..Len(blocks) :
        /\ blocks[i].index = i
        /\ i > 1 => blocks[i].prev_block_hash = blocks[i - 1].hash

\* C1: a block above the genesis has just been replaced.
C1_Witness ==
    /\ lastOp.op = "replace_block"
    /\ lastOp.block.index >= 2
    /\ Len(blocks) >= 2

\* C2: two stored payload blocks with the same transaction identity have
\* the same key, the second being the immediate successor of the first or
\* not.
C2_IdentityOwnership ==
    \A i, j \in 1..Len(blocks) :
        (/\ i < j
         /\ Payload(i)
         /\ Payload(j)
         /\ TxOf(i).identity = TxOf(j).identity)
        => blocks[i].pub_key = blocks[j].pub_key

\* C3: once the chain extends past F.index + BLOCK_SIGNERS_ALL, at least
\* BLOCK_SIGNERS_MIN of the blocks in the BLOCK_SIGNERS_ALL slots after the
\* payload block F are signing blocks from keys elected for F, all from
\* different keys.
C3_SignerQuota ==
    \A f \in 1..Len(blocks) :
        (/\ Payload(f)
         /\ f > BLOCK_SIGNERS_START
         /\ get_height > f + BLOCK_SIGNERS_ALL)
        => LET locks == {i \in (f + 1)..(f + BLOCK_SIGNERS_ALL) :
                            /\ ~Payload(i)
                            /\ InSeq(blocks[i].pub_key, SignersOf(blocks[f]).signers)}
           IN  /\ Cardinality(locks) >= BLOCK_SIGNERS_MIN
               /\ \A i, j \in locks :
                     i # j => blocks[i].pub_key # blocks[j].pub_key

-----------------------------------------------------------------------------
(* Properties: the verdicts of check_new_block.                             *)

\* The blocks offered for the slot after the tip.
NextCandidates(candidates) == {b \in candidates : b.index = Len(blocks) + 1}

\* The blocks on top of the last payload block are signing blocks from
\* different keys elected for it.
ValidlySigned ==
    LET f == Unwrap(LastFull).index
    IN  \A i \in (f + 1)..Len(blocks) :
            /\ InSeq(blocks[i].pub_key, SignersOf(blocks[f]).signers)
            /\ \A j \in (f + 1)..(i - 1) : blocks[j].pub_key # blocks[i].pub_key

\* C4: a payload block for the slot after the tip that passes the gates
\* before the signer rule is Bad while fewer than BLOCK_SIGNERS_MIN blocks
\* sit on top of the last payload block, and Good once that many valid
\* signing blocks sit there.
C4_QuotaGate ==
    \A b \in NextCandidates(PayloadCandidates), now \in ClockNow(Times) :
        (/\ status = "running"
         /\ IsSome(LastFull)
         /\ EarlyGates(b, last_block, now, last_full_block) = "")
        => /\ get_height - Unwrap(LastFull).index < BLOCK_SIGNERS_MIN
                => check_new_block(b, now).quality = "Bad"
           /\ (get_height - Unwrap(LastFull).index >= BLOCK_SIGNERS_MIN
               /\ ValidlySigned)
                => check_new_block(b, now).quality = "Good"

\* C5: while fewer than BLOCK_SIGNERS_ALL blocks sit on top of the last
\* payload block F, a signing block for the slot after the tip is Good only
\* if its key is elected for F and has mined no block above F, and is Bad
\* when its key is not elected or has mined a block above F.
C5_ValidSigner ==
    \A b \in NextCandidates(SigningCandidates(1..BootLength)),
       now \in ClockNow(Times) :
        (/\ status = "running"
         /\ IsSome(LastFull)
         /\ get_height - Unwrap(LastFull).index < BLOCK_SIGNERS_ALL)
        => LET F == Unwrap(LastFull)
               valid == /\ InSeq(b.pub_key, SignersOf(F).signers)
                        /\ \A i \in (F.index + 1)..(b.index - 1) :
                              blocks[i].pub_key # b.pub_key
           IN  /\ check_new_block(b, now).quality = "Good" => valid
               /\ ~valid => check_new_block(b, now).quality = "Bad"

\* The blocks offered for the tip's slot.
TipCandidates == CandidatesAt({Len(blocks)} \ {0})

\* C6: a block for the tip's slot that passes the gates before the match on
\* last_block and the signer rule is a Twin when its hash is the stored
\* tip's and a Fork when the stored block has another hash.
C6_TwinFork ==
    \A b \in TipCandidates, now \in ClockNow(Times) :
        (/\ IsSome(last_block)
         /\ b.index = Unwrap(last_block).index
         /\ EarlyGates(b, last_block, now, last_full_block) = ""
         /\ is_good_sign_block(b, last_full_block, signers).result = "true")
        => /\ b.hash = blocks[Len(blocks)].hash
                => check_new_block(b, now).quality = "Twin"
           /\ b.hash # blocks[b.index].hash
                => check_new_block(b, now).quality = "Fork"

\* C6: the stored tip is offered again and is a Twin, and another block
\* with the same previous hash is offered for its slot and is a Fork.
C6_Witness ==
    /\ Len(blocks) >= 2
    /\ \E b, f \in TipCandidates :
          /\ b.hash = blocks[Len(blocks)].hash
          /\ check_new_block(b, 0).quality = "Twin"
          /\ f.prev_block_hash = b.prev_block_hash
          /\ f.hash # b.hash
          /\ check_new_block(f, 0).quality = "Fork"

-----------------------------------------------------------------------------
(* Properties: replace_block and check_chain.                               *)

RowsAt(table, index) ==
    LET At(row) == row.id = index
    IN  SelectSeq(table, At)

\* The projection rows that a block leaves in the table of `class`.
RowsFrom(block, class) ==
    IF is_some_transaction(block) /\ Unwrap(block.transaction).class = class
    THEN <<RowOf(block.index, block.timestamp, Unwrap(block.transaction))>>
    ELSE <<>>

\* C7: after replace_block(b) the height is b.index, the stored block at
\* b.index has b's hash, no table holds a row above b.index, the projection
\* rows at b.index are those of b, and the signer cache is empty.
C7_ReplacePost ==
    lastOp.op = "replace_block"
    => /\ get_height = lastOp.block.index
       /\ IsSome(get_block(lastOp.block.index))
       /\ Unwrap(get_block(lastOp.block.index)).hash = lastOp.block.hash
       /\ \A i \in 1..Len(blocks) : blocks[i].index <= lastOp.block.index
       /\ \A i \in 1..Len(domains) : domains[i].id <= lastOp.block.index
       /\ \A i \in 1..Len(zones) : zones[i].id <= lastOp.block.index
       /\ RowsAt(domains, lastOp.block.index) = RowsFrom(lastOp.block, "domain")
       /\ RowsAt(zones, lastOp.block.index) = RowsFrom(lastOp.block, "zone")
       /\ signers = EmptyCache

\* C7: a payload block has just replaced a block above the genesis.
C7_Witness ==
    /\ lastOp.op = "replace_block"
    /\ is_some_transaction(lastOp.block)
    /\ lastOp.block.index >= 2

\* The stored block k against the chain below it, as the candidate it once
\* was: linkage, difficulty, ownership of the identity, cooldown, and the
\* rule for signing blocks.
HistoricLinked(k) ==
    k = 1 \/ blocks[k].prev_block_hash = blocks[k - 1].hash

DeclaredBefore(k, name) ==
    LET Named(row) == row.id < k /\ row.data.name = name
        rows == SelectSeq(zones, Named)
    IN  IF rows = <<>> THEN U32_MAX ELSE rows[Len(rows)].data.difficulty

HistoricDifficulty(k) ==
    blocks[k].difficulty >=
        (IF ~Payload(k) THEN IF k = 1 THEN ZONE_DIFFICULTY ELSE SIGNER_DIFFICULTY
         ELSE IF TxOf(k).class = "zone" THEN ZONE_DIFFICULTY
         ELSE DeclaredBefore(k, TxOf(k).data.zone))

\* Ownership is asked as check_block asks it, of the rows below the tip the
\* block was offered on.
HistoricOwner(k) ==
    Payload(k) =>
        /\ \A i \in 1..Len(domains) :
              (domains[i].id < k - 1 /\ domains[i].identity = TxOf(k).identity)
              => domains[i].pub_key = blocks[k].pub_key
        /\ \A i \in 1..Len(zones) :
              (zones[i].id < k - 1 /\ zones[i].identity = TxOf(k).identity)
              => zones[i].pub_key = blocks[k].pub_key

HistoricCooldown(k) ==
    Payload(k) =>
        LET mine == {j \in 1..(k - 1) :
                        Payload(j) /\ blocks[j].pub_key = blocks[k].pub_key}
            known == \E i \in 1..Len(domains) :
                        domains[i].id < k /\ domains[i].identity = TxOf(k).identity
        IN  \/ mine = {}
            \/ known
            \/ blocks[Highest(mine)].timestamp + NEW_DOMAINS_INTERVAL
                   <= blocks[k].timestamp

HistoricSigner(k) ==
    ~Payload(k) =>
        LET full == {j \in 1..(k - 1) : Payload(j)}
        IN  \/ full = {}
            \/ (k - 1) - Highest(full) >= BLOCK_SIGNERS_ALL
            \/ /\ SignersOf(blocks[Highest(full)]).end = "return"
               /\ InSeq(blocks[k].pub_key, SignersOf(blocks[Highest(full)]).signers)
               /\ \A j \in (Highest(full) + 1)..(k - 1) :
                     blocks[j].pub_key # blocks[k].pub_key

HistoricGood(k) ==
    /\ HistoricLinked(k)
    /\ HistoricDifficulty(k)
    /\ HistoricOwner(k)
    /\ HistoricCooldown(k)
    /\ HistoricSigner(k)

\* The blocks check_chain(count) checks that are not valid in that sense.
HistoricBad(count) ==
    {k \in CheckStart(count)..Len(blocks) : ~HistoricGood(k)}

\* C8: when check_chain returns and k is the lowest index it checked whose
\* block is not valid against the chain below it, the height is k - 1 and
\* no table holds a row at or above k.
C8_Truncation ==
    [][(/\ lastOp'.op = "check_chain"
        /\ status = "running"
        /\ status' = "running"
        /\ HistoricBad(lastOp'.count) # {})
       => /\ Len(blocks') = Lowest(HistoricBad(lastOp'.count)) - 1
          /\ last_block' = get_block(Lowest(HistoricBad(lastOp'.count)) - 1)
          /\ \A i \in 1..Len(domains') :
                domains'[i].id < Lowest(HistoricBad(lastOp'.count))
          /\ \A i \in 1..Len(zones') :
                zones'[i].id < Lowest(HistoricBad(lastOp'.count))]_vars

\* C9: on a store whose blocks are all valid against the chain below them,
\* check_chain returns and leaves the tables and the height as they were.
C9_NoOp ==
    [][(/\ lastOp'.op = "check_chain"
        /\ status = "running"
        /\ \A k \in 1..Len(blocks) : HistoricGood(k))
       => /\ status' = "running"
          /\ blocks' = blocks
          /\ domains' = domains
          /\ zones' = zones
          /\ last_block' = last_block]_vars

-----------------------------------------------------------------------------
(* Properties: the difficulty gate.                                         *)

Difficulties ==
    {SIGNER_DIFFICULTY - 1, SIGNER_DIFFICULTY, ZONE_MIN_DIFFICULTY,
     ZONE_DIFFICULTY - 1, ZONE_DIFFICULTY}

\* Blocks for every slot up to the second after the tip, well formed but
\* for their difficulty: the nonce search stopped at what they state.
DifficultyProbes ==
    UNION {{Mined(i, 0, CHAIN_VERSION, d, d, PrevHash(i), k, t, Seed) :
                i \in 1..(Len(blocks) + 2), d \in Difficulties, t \in Payloads(k)}
           : k \in Keys}

\* The difficulty the last zone row named `name` declares.
Declared(name) == DeclaredBefore(Len(blocks) + 1, name)

\* The difficulty asked of a signing block, of a payload block at index 1,
\* of a zone and of a domain when every signing block owes SIGNER_DIFFICULTY.
FlatDifficulty(b) ==
    IF ~is_some_transaction(b) THEN SIGNER_DIFFICULTY
    ELSE IF b.index = 1 THEN ZONE_DIFFICULTY
    ELSE IF Unwrap(b.transaction).class = "zone" THEN ZONE_DIFFICULTY
    ELSE Declared(Unwrap(b.transaction).data.zone)

\* The difficulty asked of a block when the signing block at index 1 owes
\* ZONE_DIFFICULTY and a payload block owes what its class asks at every
\* index.
GenesisDifficulty(b) ==
    IF ~is_some_transaction(b)
    THEN IF b.index = 1 THEN ZONE_DIFFICULTY ELSE SIGNER_DIFFICULTY
    ELSE IF Unwrap(b.transaction).class = "zone" THEN ZONE_DIFFICULTY
    ELSE Declared(Unwrap(b.transaction).data.zone)

\* The gate lets the block through.
PassesDifficultyGate(b) == ~(b.difficulty < RequiredDifficulty(b))

\* C10 as stated: a block whose difficulty is below SIGNER_DIFFICULTY (any
\* signing block), ZONE_DIFFICULTY (a payload block at index 1, a zone) or
\* the difficulty its zone declares (a domain) is Bad, and a block whose
\* difficulty is at least that passes the gate.
C10_FlatDifficulty ==
    \A b \in DifficultyProbes, now \in ClockNow(Times) :
        /\ b.difficulty < FlatDifficulty(b)
              => check_new_block(b, now).quality = "Bad"
        /\ b.difficulty >= FlatDifficulty(b) => PassesDifficultyGate(b)

\* C10: a block that is not beyond the slot after the tip is Bad when its
\* difficulty is below ZONE_DIFFICULTY (the signing block at index 1, a
\* zone), SIGNER_DIFFICULTY (a signing block above index 1) or the
\* difficulty its zone declares (a domain, Bad when no zone row has the
\* name); a block whose difficulty is at least that passes the gate, and is
\* Good if the block the miner makes of it is.
C10_RequiredDifficulty ==
    \A b \in DifficultyProbes, now \in ClockNow(Times) :
        /\ (/\ b.difficulty < GenesisDifficulty(b)
            /\ ~(IsSome(last_block) /\ b.index > Unwrap(last_block).index + 1))
              => check_new_block(b, now).quality = "Bad"
        /\ b.difficulty >= GenesisDifficulty(b)
              => /\ PassesDifficultyGate(b)
                 /\ check_new_block(Candidate(b.index, b.timestamp,
                                              b.prev_block_hash, b.pub_key,
                                              b.transaction), now).quality = "Good"
                       => check_new_block(b, now).quality = "Good"

\* C10: a zone is stored; of two domain blocks for the slot after the tip
\* that differ in difficulty alone, the one below what the zone declares is
\* Bad and the one at what the zone declares is Good.
C10_Witness ==
    /\ zones # <<>>
    /\ lastOp.op = "add_block"
    /\ \E b, g \in DifficultyProbes :
          /\ is_some_transaction(b)
          /\ Unwrap(b.transaction).class = "domain"
          /\ b.index = Len(blocks) + 1
          /\ g.index = b.index
          /\ g.pub_key = b.pub_key
          /\ g.transaction = b.transaction
          /\ b.difficulty < GenesisDifficulty(b)
          /\ g.difficulty = GenesisDifficulty(g)
          /\ check_new_block(b, 0).quality = "Bad"
          /\ check_new_block(g, 0).quality = "Good"

-----------------------------------------------------------------------------
(* Properties: the order of the gates of check_block.                       *)

\* A block with another hash in place of its own, or signed by another key.
Forged(b, good_hash, good_signature) ==
    [b EXCEPT !.hash = IF good_hash THEN @ ELSE ForeignHash,
              !.signature = IF good_signature THEN @
                            ELSE [by |-> WeakKey, of |-> b.hash, tail |-> Seed]]

\* Blocks for the second slot after the tip: of a weak key or a strong one,
\* of no difficulty or of ZONE_DIFFICULTY, with the nonce search finished or
\* not, with the right hash and signature or forged ones, with and without
\* payload.
FutureProbes ==
    UNION {{Forged(Mined(Len(blocks) + 2, 0, CHAIN_VERSION, d, n,
                         PrevHash(Len(blocks) + 2), k, t, Seed), h, s) :
                d \in {0, ZONE_DIFFICULTY}, n \in {0, ZONE_DIFFICULTY},
                t \in Payloads(k), h \in BOOLEAN, s \in BOOLEAN}
           : k \in Keys \cup {WeakKey}}

\* C14: on a store that is not empty, a block of a supported version, with
\* a timestamp no later than the clock plus the tolerance and an index
\* beyond the slot after the tip, is Future whatever its key, difficulty,
\* hash, signature and payload.
C14_FutureVerdict ==
    (status = "running" /\ IsSome(last_block))
    => \A b \in FutureProbes, now \in ClockNow(Times) :
          (/\ b.version <= CHAIN_VERSION
           /\ b.timestamp <= now + FUTURE_TOLERANCE
           /\ b.index > Unwrap(last_block).index + 1)
          => check_new_block(b, now).quality = "Future"

\* C14: a block is stored, and a payload block for the second slot after
\* it, of a weak key, below its difficulty, with a forged hash and a forged
\* signature, is Future.
C14_Witness ==
    /\ lastOp.op = "add_block"
    /\ \E b \in FutureProbes :
          /\ b.index > Unwrap(last_block).index + 1
          /\ ~check_public_key_strength(b.pub_key, KEYSTORE_DIFFICULTY)
          /\ b.difficulty < RequiredDifficulty(b)
          /\ ~check_block_hash(b)
          /\ ~check_block_signature(b)
          /\ is_some_transaction(b)
          /\ check_new_block(b, 0).quality = "Future"

\* The block passes the gates of check_block up to the signature gate.
PassesToSignature(b, now) ==
    /\ b.version <= CHAIN_VERSION
    /\ b.timestamp <= now + FUTURE_TOLERANCE
    /\ ~(IsSome(last_block) /\ b.index > Unwrap(last_block).index + 1)
    /\ check_public_key_strength(b.pub_key, KEYSTORE_DIFFICULTY)
    /\ b.difficulty >= RequiredDifficulty(b)
    /\ hash_difficulty(b.hash) >= b.difficulty
    /\ check_block_hash(b)
    /\ check_block_signature(b)

\* C15: a block that passes the gates up to the signature gate, for a slot
\* whose predecessor is stored with a hash other than the block's previous
\* hash, is a Rewind; so is it for the slot after the tip.
C15_RewindVerdict ==
    status = "running"
    => \A b \in Candidates, now \in ClockNow(Times) :
          (/\ PassesToSignature(b, now)
           /\ b.index - 1 \in 1..Len(blocks)
           /\ blocks[b.index - 1].hash # b.prev_block_hash)
          => check_new_block(b, now).quality = "Rewind"

\* C15: a block that passes the gates up to the signature gate is offered
\* for the slot after the tip with a previous hash that is not the tip's,
\* and is a Rewind.
C15_Witness ==
    /\ lastOp.op = "check_new_block"
    /\ \E b \in Candidates :
          /\ PassesToSignature(b, 0)
          /\ b.index = get_height + 1
          /\ IsSome(last_block)
          /\ b.prev_block_hash # Unwrap(last_block).hash
          /\ check_new_block(b, 0).quality = "Rewind"

\* Blocks for the first two slots of an empty store.
GenesisProbes == CandidatesAt({1, 2})

\* C16: on an empty store a block that passes the gates before the match on
\* last_block is Future when its index is not 1, Bad when an origin is
\* configured and is not the block's hash, and Good otherwise.
C16_GenesisGate ==
    (status = "running" /\ last_block = None)
    => \A b \in GenesisProbes, now \in ClockNow(Times) :
          EarlyGates(b, last_block, now, last_full_block) = ""
          => check_new_block(b, now).quality =
                IF b.index # 1 THEN "Future"
                ELSE IF origin # Zero32 /\ b.hash # origin THEN "Bad"
                ELSE "Good"

\* C16: the store is empty, and of the blocks offered one is Future, one is
\* Bad for the configured origin and the origin's block is Good.
C16_Witness ==
    /\ last_block = None
    /\ origin # Zero32
    /\ lastOp.op = "check_new_block"
    /\ \E f, b, g \in GenesisProbes :
          /\ EarlyGates(f, last_block, 0, last_full_block) = ""
          /\ check_new_block(f, 0).quality = "Future"
          /\ EarlyGates(b, last_block, 0, last_full_block) = ""
          /\ b.index = 1
          /\ check_new_block(b, 0).quality = "Bad"
          /\ g.hash = origin
          /\ check_new_block(g, 0).quality = "Good"

-----------------------------------------------------------------------------
(* Properties: payloads on the chain.                                       *)

ClassOf(i) == TxOf(i).class

\* C11: every stored domain block has a stored zone block below it whose
\* name is the zone the domain names.
C11_ZonePrecedesDomain ==
    \A d \in 1..Len(blocks) :
        (Payload(d) /\ ClassOf(d) = "domain")
        => \E z \in 1..(d - 1) :
              /\ Payload(z)
              /\ ClassOf(z) = "zone"
              /\ TxOf(z).data.name = TxOf(d).data.zone

-----------------------------------------------------------------------------
(* Properties: add_block.                                                   *)

-----------------------------------------------------------------------------
(* The chain of zones: an empty store, the owner of the zone and a second   *)
(* key, blocks a day apart, zones with and without the yggdrasil flag,      *)
(* domains with Yggdrasil records only and with clearnet records.           *)

MaxZoned == 3

ZonedKeys == {1, 2}
ZonedTimes == {0, NEW_DOMAINS_INTERVAL}

\* The first key mines the zone, flagged or not, and domains with Yggdrasil
\* records only; the second mines domains with clearnet records.
ZonedPayloads(key) ==
    IF key = 1
    THEN {Some(ZoneTx(ZoneIdentity, ZoneName, ZONE_MIN_DIFFICULTY, y, key)) :
              y \in BOOLEAN}
         \cup {Some(DomainTx(DomainIdentity, ZoneName, TRUE, key))}
    ELSE {Some(DomainTx(DomainIdentity, ZoneName, FALSE, key))}

\* The blocks offered for every slot up to the one after the tip.
ZonedCandidates ==
    UNION {{Candidate(i, ts, PrevHash(i), k, t) :
                i \in 1..(Len(blocks) + 1), ts \in ZonedTimes,
                t \in ZonedPayloads(k)}
           : k \in ZonedKeys}

AddZoned == AddBlockOf(ZonedCandidates, ZonedTimes, MaxZoned)
ReplaceZoned == ReplaceBlockOf(ZonedCandidates, ZonedTimes)
CheckNewZoned == CheckNewBlockOf(ZonedCandidates, ZonedTimes)
CheckChainZoned == CheckChainOf(CheckCounts, ZonedTimes)

NextZoned ==
    \/ AddZoned
    \/ ReplaceZoned
    \/ CheckNewZoned
    \/ CheckChainZoned

\* Chain::new on an empty store with no origin configured.
InitZoned == Init /\ origin = Zero32

SpecZoned == InitZoned /\ [][NextZoned]_vars

\* The payload blocks of the key of block i below it.
PayloadsBelow(i) ==
    {j \in 1..(i - 1) : Payload(j) /\ blocks[j].pub_key = blocks[i].pub_key}

\* No domain row below block i has its identity.
NewIdentity(i) ==
    \A r \in 1..Len(domains) :
        ~(domains[r].id < i /\ domains[r].identity = TxOf(i).identity)

C13_YggdrasilOnly ==
    \A d \in 1..Len(blocks) :
        (/\ Payload(d)
         /\ ClassOf(d) = "domain"
         /\ \E z \in get_zones : z.name = TxOf(d).data.zone /\ z.yggdrasil)
        => TxOf(d).data.ygg_records

-----------------------------------------------------------------------------
(* Store errors.  A statement of the store may fail (a full disk, a locked  *)
(* file): add_block_to_table in add_block, and each of the three DELETE     *)
(* statements of truncate_db_from_block in replace_block.                   *)

MaxFaulty == 2

\* Chain::add_block when add_block_to_table returns an error: the caches
\* were assigned before the insert, the projection row is skipped.
add_block_unstored(block, bs, ds, zs, lfb) ==
    [blocks |-> bs, domains |-> ds, zones |-> zs,
     last_block |-> Some(block),
     last_full_block |-> IF is_some_transaction(block) THEN Some(block) ELSE lfb]

\* The statements of replace_block that may fail, in the order they run:
\* the DELETE on blocks, on domains, on zones, and the insert of add_block.
FailingStatements == {"blocks", "domains", "zones", "insert"}

\* Chain::replace_block when `failing` returns an error: the statements
\* before it have run, each in its own transaction; the `?` returns from
\* replace_block before add_block unless the insert is what fails.
replace_block_failing(block, failing) ==
    LET bs == IF failing = "blocks" THEN blocks
              ELSE KeepBlocks(blocks, block.index)
        ds == IF failing \in {"blocks", "domains"} THEN domains
              ELSE Keep(domains, block.index)
        zs == IF failing = "insert" THEN Keep(zones, block.index) ELSE zones
    IN  IF failing = "insert"
        THEN add_block_unstored(block, bs, ds, zs, last_full_block)
        ELSE [blocks |-> bs, domains |-> ds, zones |-> zs,
              last_block |-> last_block, last_full_block |-> last_full_block]

\* The projection tables hold the rows of the stored payload blocks and no
\* other, and the tip cache is the stored tip: no statement has failed yet,
\* or what it left behind is gone.
StoreIntact ==
    /\ last_block = load_last_block
    /\ Len(domains) + Len(zones) = Cardinality({i \in 1..Len(blocks) : Payload(i)})
    /\ \A r \in 1..Len(domains) :
          /\ domains[r].id \in 1..Len(blocks)
          /\ Payload(domains[r].id)
          /\ ClassOf(domains[r].id) = "domain"
    /\ \A r \in 1..Len(zones) :
          /\ zones[r].id \in 1..Len(blocks)
          /\ Payload(zones[r].id)
          /\ ClassOf(zones[r].id) = "zone"

\* check_new_block(block) says Good and the insert of add_block(block) fails.
\* The model lets a statement fail on an intact store only.
AddBlockFailsOf(candidates, times, limit) ==
    \E block \in candidates, now \in ClockNow(times) :
        \E c \in {check_new_block(block, now)},
           a \in {add_block_unstored(block, blocks, domains, zones,
                                     last_full_block)} :
            /\ status = "running"
            /\ StoreIntact
            /\ Len(blocks) < limit
            /\ c.quality = "Good"
            /\ last_block' = a.last_block
            /\ last_full_block' = a.last_full_block
            /\ signers' = c.cache
            /\ lastOp' = [op |-> "add_block_failed", block |-> block]
            /\ UNCHANGED minerVars
            /\ UNCHANGED <<origin, blocks, domains, zones, status>>

\* check_new_block(block) says Fork and a statement of replace_block(block)
\* fails.
ReplaceBlockFailsOf(candidates, times) ==
    \E block \in candidates, now \in ClockNow(times), failing \in FailingStatements :
        \E c \in {check_new_block(block, now)},
           a \in {replace_block_failing(block, failing)} :
            /\ status = "running"
            /\ StoreIntact
            /\ c.quality = "Fork"
            /\ blocks' = a.blocks
            /\ domains' = a.domains
            /\ zones' = a.zones
            /\ last_block' = a.last_block
            /\ last_full_block' = a.last_full_block
            /\ signers' = EmptyCache
            /\ lastOp' = [op |-> "replace_block_failed", block |-> block,
                          failing |-> failing]
            /\ UNCHANGED minerVars
            /\ UNCHANGED <<origin, status>>

AddFaulty == AddBlockOf(Candidates, Times, MaxFaulty)
ReplaceFaulty == ReplaceBlockOf(Candidates, Times)
CheckNewFaulty == CheckNewBlockOf(Candidates, Times)
AddFails == AddBlockFailsOf(Candidates, Times, MaxFaulty)
ReplaceFails == ReplaceBlockFailsOf(Candidates, Times)

NextFaulty ==
    \/ AddFaulty
    \/ ReplaceFaulty
    \/ CheckNewFaulty
    \/ AddFails
    \/ ReplaceFails

SpecFaulty == Init /\ [][NextFaulty]_vars

\* C18: an add_block whose insert fails leaves the three tables, last_block,
\* last_full_block and the height as they were.
C18_AddBlockError ==
    [][(lastOp'.op = "add_block_failed" /\ lastOp' # lastOp)
       => /\ UNCHANGED <<blocks, domains, zones, last_block, last_full_block>>
          /\ get_height' = get_height]_vars

\* C19: a replace_block in which a statement fails leaves the three tables
\* and the tip caches as they were; one in which none fails leaves the
\* tables truncated at the block's index with the block appended.
C19_ReplaceAtomic ==
    [][/\ (lastOp'.op = "replace_block_failed" /\ lastOp' # lastOp)
          => UNCHANGED <<blocks, domains, zones, last_block, last_full_block>>
       /\ (lastOp'.op = "replace_block" /\ lastOp' # lastOp)
          => /\ blocks' = Append(KeepBlocks(blocks, lastOp'.block.index),
                                 lastOp'.block)
             /\ Keep(domains', lastOp'.block.index)
                   = Keep(domains, lastOp'.block.index)
             /\ Keep(zones', lastOp'.block.index)
                   = Keep(zones, lastOp'.block.index)
             /\ \A r \in 1..Len(domains') :
                   domains'[r].id <= lastOp'.block.index
             /\ \A r \in 1..Len(zones') :
                   zones'[r].id <= lastOp'.block.index]_vars

-----------------------------------------------------------------------------
(* The signer cache on a chain old enough to elect signers: the zone is     *)
(* declared and re-asserted a day later with the yggdrasil flag, a key from *)
(* outside the window and one from inside it mine domains with clearnet     *)
(* records, and the key of the genesis offers signing blocks.               *)

MaxElect == 3

\* The keys that mine domains: one no stored block has, one of the window.
ElectDomainKeys == {DomainKey, 2}
\* The key that signs: elected only for a payload block of a key of the
\* window.
ElectSignKeys == {1}

ElectCandidates ==
    {Candidate(i, IF y THEN NEW_DOMAINS_INTERVAL ELSE 0, PrevHash(i), ZoneKey,
               Some(ZoneTx(ZoneIdentity, ZoneName, ZONE_MIN_DIFFICULTY, y, ZoneKey))) :
        i \in TipSlots, y \in BOOLEAN}
    \cup {Candidate(i, 0, PrevHash(i), k,
                    Some(DomainTx(DomainIdentity, ZoneName, FALSE, k))) :
            i \in TipSlots, k \in ElectDomainKeys}
    \cup {Candidate(i, NEW_DOMAINS_INTERVAL, PrevHash(i), k, None) :
            i \in TipSlots, k \in ElectSignKeys}

AddElect == AddBlockOf(ElectCandidates, ZonedTimes, BootLength + MaxElect)
ReplaceElect == ReplaceBlockOf(ElectCandidates, ZonedTimes)
CheckNewElect == CheckNewBlockOf(ElectCandidates, ZonedTimes)
CheckChainElect == CheckChainOf(CheckCounts, ZonedTimes)

NextElect ==
    \/ AddElect
    \/ ReplaceElect
    \/ CheckNewElect
    \/ CheckChainElect

SpecElect == InitBoot /\ [][NextElect]_vars

\* C20: for every stored payload block whose election returns,
\* get_block_signers gives, with the signer cache as it is, the vector the
\* election over the store gives, and gives it again when called again.
C20_SignerMemo ==
    \A f \in 1..Len(blocks) :
        (/\ status = "running"
         /\ Payload(f)
         /\ f <= get_height
         /\ SignersOf(blocks[f]).end = "return")
        => \E g \in {get_block_signers(blocks[f], signers)} :
              /\ g.end = "return"
              /\ g.signers = SignersOf(blocks[f]).signers
              /\ get_block_signers(blocks[f], g.cache).signers = g.signers

-----------------------------------------------------------------------------
(* The signer election as section 4.4 states it.                            *)

\* idx(count) for the payload block F.
ElectionSlot(F, count) ==
    ((get_tail_u64(F.signature) * count) % (F.index - 1)) + 1

\* The rounds at which the election for F meets the key k; the visits repeat
\* after F.index - 1 rounds.
RoundsOf(F, k) ==
    {c \in 1..(F.index - 1) :
        /\ ElectionSlot(F, c) \in 1..Len(blocks)
        /\ blocks[ElectionSlot(F, c)].pub_key = k}

FirstRound(F, k) == Lowest(RoundsOf(F, k))

\* The keys the election for F can take.
Electable(F) ==
    {blocks[i].pub_key : i \in 1..Min(Len(blocks), F.index - 1)} \ {F.pub_key}

\* v is the vector of the first BLOCK_SIGNERS_ALL keys the election for F
\* discovers, in the order of discovery.
ElectedInOrder(F, v) ==
    /\ Len(v) = BLOCK_SIGNERS_ALL
    /\ \A i \in 1..Len(v) : v[i] \in Electable(F) /\ RoundsOf(F, v[i]) # {}
    /\ \A i, j \in 1..Len(v) : i < j => v[i] # v[j]
    /\ \A i, j \in 1..Len(v) :
          i < j => FirstRound(F, v[i]) < FirstRound(F, v[j])
    /\ \A k \in Electable(F) :
          (RoundsOf(F, k) # {} /\ ~InSeq(k, v))
          => FirstRound(F, k) > FirstRound(F, v[Len(v)])

\* C21: a returning call get_block_signers(F) for a stored payload block F
\* yields exactly BLOCK_SIGNERS_ALL pairwise-distinct keys, none F's own,
\* each the key of a stored block below F, in the order idx(count) first
\* discovers them.
C21_ElectionResult ==
    status = "running"
    => \A f \in 1..Len(blocks) :
          (Payload(f) /\ f <= get_height)
          => \E g \in {get_block_signers(blocks[f], signers)} :
                g.end = "return" => ElectedInOrder(blocks[f], g.signers)

\* The same of a call that finds the signer cache empty.
ElectionFromScratch ==
    status = "running"
    => \A f \in 1..Len(blocks) :
          (Payload(f) /\ f <= get_height)
          => \E g \in {get_block_signers(blocks[f], EmptyCache)} :
                g.end = "return" => ElectedInOrder(blocks[f], g.signers)

-----------------------------------------------------------------------------
(* get_sign_block.                                                          *)

\* Block::new(None, Bytes::default(), last_hash, SIGNER_DIFFICULTY) with the
\* index the caller gives it.
SignTemplate(last_index, last_hash) ==
    [index |-> last_index + 1, transaction |-> None, pub_key |-> EmptyBytes,
     prev_block_hash |-> last_hash, difficulty |-> SIGNER_DIFFICULTY]

\* What get_sign_block hands back: how the call ends, the template, the
\* signer cache it leaves and whether the signature count underflowed.
SignBlock(end, block, cache, underflow) ==
    [end |-> end, block |-> block, cache |-> cache, underflow |-> underflow]

\* A tail of get_sign_block that does not look whether the key has signed
\* above the payload block already.
SignBlockForAnyElected(key, block, s) ==
    IF s.end # "return" THEN SignBlock(s.end, None, s.cache, FALSE)
    ELSE IF ~InSeq(key, s.signers) THEN SignBlock("return", None, s.cache, FALSE)
    ELSE IF \E index \in block.index..get_height : get_block(index) = None
         THEN SignBlock("panic", None, s.cache, FALSE)
    ELSE SignBlock("return",
                   Some(SignTemplate(Unwrap(last_block).index,
                                     Unwrap(last_block).hash)),
                   s.cache, FALSE)

\* The tail of get_sign_block once get_block_signers ended as `s`.
SignBlockFor(key, block, s) ==
    IF s.end # "return" THEN SignBlock(s.end, None, s.cache, FALSE)
    ELSE IF ~InSeq(key, s.signers) THEN SignBlock("return", None, s.cache, FALSE)
    ELSE IF \E index \in block.index..get_height : get_block(index) = None
         THEN SignBlock("panic", None, s.cache, FALSE)
    ELSE IF \E index \in block.index..get_height : blocks[index].pub_key = key
         THEN SignBlock("return", None, s.cache, FALSE)
    ELSE SignBlock("return",
                   Some(SignTemplate(Unwrap(last_block).index,
                                     Unwrap(last_block).hash)),
                   s.cache, FALSE)

\* A get_sign_block that gives no template unless the local height is the
\* network's.
get_sign_block_at_network_height(keystore, max, now) ==
    IF get_height < BLOCK_SIGNERS_START THEN SignBlock("return", None, signers, FALSE)
    ELSE IF keystore = None THEN SignBlock("return", None, signers, FALSE)
    ELSE IF get_height # max THEN SignBlock("return", None, signers, FALSE)
    ELSE IF last_full_block = None THEN SignBlock("return", None, signers, FALSE)
    ELSE IF SignCountUnderflows(Unwrap(last_full_block))
         THEN SignBlock("return", None, signers, TRUE)
    ELSE IF get_height - Unwrap(last_full_block).index >= BLOCK_SIGNERS_MIN
         THEN SignBlock("return", None, signers, FALSE)
    ELSE IF IsSome(last_block) /\ Unwrap(last_block).timestamp + 60 > now
         THEN SignBlock("return", None, signers, FALSE)
    ELSE IF last_block = None THEN SignBlock("return", None, signers, FALSE)
    ELSE SignBlockFor(Unwrap(keystore), Unwrap(last_full_block),
                      get_block_signers(Unwrap(last_full_block), signers))

\* Chain::get_sign_block for the keystore `keystore` (an Option of its
\* public key), Chain.max_height `max` and the wall clock `now`.  When the
\* subtraction underflows, a build without overflow checks goes on with a
\* count above BLOCK_SIGNERS_MIN: that is the result given here, and the
\* field underflow tells that a checked build panics instead.
get_sign_block(keystore, max, now) ==
    IF get_height < BLOCK_SIGNERS_START THEN SignBlock("return", None, signers, FALSE)
    ELSE IF keystore = None THEN SignBlock("return", None, signers, FALSE)
    ELSE IF get_height < max THEN SignBlock("return", None, signers, FALSE)
    ELSE IF last_full_block = None THEN SignBlock("return", None, signers, FALSE)
    ELSE IF SignCountUnderflows(Unwrap(last_full_block))
         THEN SignBlock("return", None, signers, TRUE)
    ELSE IF get_height - Unwrap(last_full_block).index >= BLOCK_SIGNERS_MIN
         THEN SignBlock("return", None, signers, FALSE)
    ELSE IF IsSome(last_block) /\ Unwrap(last_block).timestamp + 60 > now
         THEN SignBlock("return", None, signers, FALSE)
    ELSE IF last_block = None THEN SignBlock("return", None, signers, FALSE)
    ELSE SignBlockFor(Unwrap(keystore), Unwrap(last_full_block),
                      get_block_signers(Unwrap(last_full_block), signers))

\* The keystores, heights of the network and clocks get_sign_block is asked
\* with: no keys and every key of the window, a network below, at and above
\* the local height, a tip 59, 60 and 61 seconds old.
SignKeystores == {None} \cup {Some(k) : k \in 1..BootLength}
NetworkHeights == {0, get_height, get_height + 1}
SignClocks ==
    IF IsSome(last_block)
    THEN {Unwrap(last_block).timestamp + d : d \in {59, 60, 61}}
    ELSE {0}

\* The conditions section 4.4 gives for a template.
MaySign(keystore, max, now) ==
    /\ IsSome(keystore)
    /\ get_height = max
    /\ IsSome(LastFull)
    /\ get_height - Unwrap(LastFull).index < BLOCK_SIGNERS_MIN
    /\ IsSome(last_block)
    /\ now - Unwrap(last_block).timestamp > 60
    /\ SignersOf(Unwrap(LastFull)).end = "return"
    /\ InSeq(Unwrap(keystore), SignersOf(Unwrap(LastFull)).signers)
    /\ \A i \in (Unwrap(LastFull).index + 1)..Len(blocks) :
          blocks[i].pub_key # Unwrap(keystore)

\* The template is a signing block for the slot after the tip.
IsSignTemplate(t) ==
    /\ t.transaction = None
    /\ t.index = get_height + 1
    /\ IsSome(last_block)
    /\ t.prev_block_hash = Unwrap(last_block).hash
    /\ t.difficulty = SIGNER_DIFFICULTY

MaySignNotBehind(keystore, max, now) ==
    /\ IsSome(keystore)
    /\ get_height >= max
    /\ IsSome(LastFull)
    /\ get_height - Unwrap(LastFull).index < BLOCK_SIGNERS_MIN
    /\ IsSome(last_block)
    /\ now - Unwrap(last_block).timestamp >= 60
    /\ SignersOf(Unwrap(LastFull)).end = "return"
    /\ InSeq(Unwrap(keystore), SignersOf(Unwrap(LastFull)).signers)
    /\ \A i \in (Unwrap(LastFull).index + 1)..Len(blocks) :
          blocks[i].pub_key # Unwrap(keystore)

\* The tip caches and the signer cache say what the store says.
CachesCoherent ==
    /\ last_block = load_last_block
    /\ last_full_block = LastFull
    /\ \/ signers = EmptyCache
       \/ /\ IsSome(LastFull)
          /\ signers.index = Unwrap(LastFull).index
          /\ signers.signers = SignersOf(Unwrap(LastFull)).signers

-----------------------------------------------------------------------------
(* can_mine_domain.                                                         *)

\* Max possible block index (chain.rs MAX); the model keeps the largest
\* value TLC has.
MAX == U32_MAX

\* A domain name as the engine sees it: whether check_domain accepts it, the
\* zone get_domain_zone gives and the identity hash_identity gives.
DomainName(valid, zone, identity) ==
    [valid |-> valid, zone |-> zone, identity |-> identity]

check_domain(name) == name.valid
get_domain_zone(name) == name.zone

\* hash_identity of a domain name and of the name of a zone.
hash_identity(name) == name.identity
hash_zone_identity(zone) == IF zone = ZoneName THEN ZoneIdentity ELSE 0

\* Chain::is_zone_in_blockchain with the cache of zone names `cache`.
is_zone_in_blockchain(height, zone, cache) ==
    \/ zone \in cache
    \/ is_id_in_blockchain(height, hash_zone_identity(zone), TRUE)

\* SQL_GET_DOMAIN_BY_ID: the row of the identity with the highest id.
LastDomainRow(identity) ==
    LET Match(row) == row.identity = identity
        rows == SelectSeq(domains, Match)
    IN  IF rows = <<>> THEN None
        ELSE Some(CHOOSE r \in {rows[i] : i \in 1..Len(rows)} :
                      \A i \in 1..Len(rows) : rows[i].id <= r.id)

\* Chain::get_domain_transaction: the row, unless it is older than
\* DOMAIN_LIFETIME.
get_domain_transaction(name, now) ==
    IF LastDomainRow(hash_identity(name)) = None THEN None
    ELSE IF Unwrap(LastDomainRow(hash_identity(name))).timestamp < now - DOMAIN_LIFETIME
         THEN None
    ELSE LastDomainRow(hash_identity(name))

MineResult(result, time) == [result |-> result, time |-> time]

\* The cooldown of can_mine_domain once the last payload block of the key
\* is `last`.
CooldownOf(height, name, last, now) ==
    IF /\ IsSome(last)
       /\ ~is_id_in_blockchain(height, hash_identity(name), FALSE)
       /\ Unwrap(last).timestamp + NEW_DOMAINS_INTERVAL - now > 0
    THEN MineResult("Cooldown", Unwrap(last).timestamp + NEW_DOMAINS_INTERVAL - now)
    ELSE MineResult("Fine", 0)

\* Chain::can_mine_domain at the wall clock `now`, with the cache of zone
\* names `cache`.
can_mine_domain(height, name, pub_key, now, cache) ==
    IF ~check_domain(name) THEN MineResult("WrongName", 0)
    ELSE IF ~is_zone_in_blockchain(height, get_domain_zone(name), cache)
         THEN MineResult("WrongZone", 0)
    ELSE IF /\ IsSome(get_domain_transaction(name, now))
            /\ Unwrap(get_domain_transaction(name, now)).pub_key # pub_key
         THEN MineResult("NotOwned", 0)
    ELSE CooldownOf(height, name,
                    get_last_full_block_in(last_full_block, MAX, Some(pub_key)), now)

\* The names can_mine_domain is asked about: the domain the model's blocks
\* register, a domain no block registers, a domain in a zone no block
\* declares and a name check_domain refuses.
FreshIdentity == 3
MineNames ==
    {DomainName(TRUE, ZoneName, DomainIdentity),
     DomainName(TRUE, ZoneName, FreshIdentity),
     DomainName(TRUE, "y", FreshIdentity),
     DomainName(FALSE, ZoneName, FreshIdentity)}

\* The heights it is asked with: the tip, the slot after it and "any".
MineHeights == {Len(blocks), Len(blocks) + 1, MAX}

\* The clocks it is asked at: a minute, a second less than a day, a day and
\* more than a year after a stored block, and no earlier than the tip.
MineClocks ==
    {now \in {blocks[i].timestamp + d :
                 i \in 1..Len(blocks),
                 d \in {60, NEW_DOMAINS_INTERVAL - 1, NEW_DOMAINS_INTERVAL,
                        DOMAIN_LIFETIME + 1}} :
        \A i \in 1..Len(blocks) : blocks[i].timestamp <= now}

\* The zone of the name has a row below `height`.
ZoneOnChain(height, name) ==
    \E i \in 1..Len(zones) :
        /\ zones[i].id < height
        /\ zones[i].identity = hash_zone_identity(get_domain_zone(name))

\* No domain row has the identity of the name.
NoDomainRow(name) ==
    \A i \in 1..Len(domains) : domains[i].identity # hash_identity(name)

\* The block a miner of key K makes of the name for the slot after the tip
\* with the timestamp `now`.
DomainBlock(name, K, now) ==
    Candidate(Len(blocks) + 1, now, PrevHash(Len(blocks) + 1), K,
              Some(DomainTx(hash_identity(name), get_domain_zone(name), TRUE, K)))

\* C23: for a valid name whose zone is on chain and whose identity has no
\* domain row, and a key K whose most recent payload block has timestamp t0,
\* can_mine_domain returns Cooldown{t0 + NEW_DOMAINS_INTERVAL - now} while
\* now < t0 + NEW_DOMAINS_INTERVAL and Fine from then on; it returns Fine
\* exactly when a block by K with timestamp now passes the cooldown gate of
\* check_block.
C23_CanMineCooldown ==
    status = "running"
    => \A name \in MineNames, K \in ZonedKeys, height \in MineHeights,
          now \in MineClocks, cache \in SUBSET {ZoneName} :
          (check_domain(name) /\ ZoneOnChain(height, name) /\ NoDomainRow(name))
          => \E r \in {can_mine_domain(height, name, K, now, cache)},
                last \in {QueryLastFull(Len(blocks), Some(K))} :
                /\ IsSome(last)
                   => r = IF now < Unwrap(last).timestamp + NEW_DOMAINS_INTERVAL
                          THEN MineResult("Cooldown",
                                   Unwrap(last).timestamp + NEW_DOMAINS_INTERVAL - now)
                          ELSE MineResult("Fine", 0)
                /\ r.result = "Fine"
                   <=> ~IsTooEarly(DomainBlock(name, K, now), last_full_block)

\* The cooldown result of can_mine_domain in the states where the tip caches
\* agree with the store.
CanMineCooldownCoherent == CachesCoherent => C23_CanMineCooldown

\* A stored domain row of the identity of the name has another key than K.
OwnedByAnother(name, K) ==
    \E i \in 1..Len(domains) :
        /\ domains[i].identity = hash_identity(name)
        /\ domains[i].pub_key # K

\* C24: for a valid name whose zone is on chain, can_mine_domain returns
\* NotOwned whenever a stored domain row of the identity of the name has a
\* key other than K, whatever the age of the row.
C24_NotOwned ==
    status = "running"
    => \A name \in MineNames, K \in ZonedKeys, height \in MineHeights,
          now \in MineClocks, cache \in SUBSET {ZoneName} :
          (check_domain(name) /\ ZoneOnChain(height, name) /\ OwnedByAnother(name, K))
          => can_mine_domain(height, name, K, now, cache).result = "NotOwned"

\* A name can_mine_domain lets K mine although check_block refuses the block
\* K would make of it as an identity spoof.
FineButSpoof ==
    /\ status = "running"
    /\ \E name \in MineNames, K \in ZonedKeys, now \in MineClocks :
          /\ can_mine_domain(Len(blocks) + 1, name, K, now, {}).result
                \in {"Fine", "Cooldown"}
          /\ IsSpoof(DomainBlock(name, K, now), last_block)

\* C25: across add_block on Good candidates, replace_block on Fork
\* candidates and check_chain, the index of last_block never decreases.
C25_MonotonicTip ==
    [][current_height(last_block') >= current_height(last_block)]_vars

-----------------------------------------------------------------------------
(* The miner as a state machine, on the chain old enough to elect signers.  *)

\* The key of the keystore: one of the keys elected to sign a block of
\* ZoneKey.
MinerKey == 2

\* settings.mining.threads
Threads == 1

\* Chain.max_height while no peer reported a height.
max_height == 0

\* How often mine_internal is called, how long the queue grows, how many
\* blocks the store grows above the signing blocks and how often the clock
\* advances.
MaxAttempts == 2
MaxJobs == 3
MaxMined == 4
MaxTicks == 1

\* The % of Rust on signed integers: the remainder of the division that
\* truncates toward zero, which has the sign of the dividend.
rem(a, b) == IF a >= 0 THEN a % b ELSE 0 - ((0 - a) % b)

\* rand::random::<i64>(): a negative and a positive number whose remainders
\* are the two ends of the range.
Randoms == {1 - 2 * BLOCK_SIGNERS_START_RANDOM, 2 * BLOCK_SIGNERS_START_RANDOM - 1}

\* rand::random::<i64>() % BLOCK_SIGNERS_START_RANDOM
StartOffsets == {rem(random, BLOCK_SIGNERS_START_RANDOM) : random \in Randoms}

\* The block the caller of Miner::add_block hands over: Block::new with the
\* transaction, the key of the keystore, no previous hash and no index.
UserBlock(transaction) ==
    [index |-> 0, transaction |-> transaction, pub_key |-> MinerKey,
     prev_block_hash |-> EmptyBytes,
     difficulty |-> TemplateDifficulty(1, transaction)]

\* A domain of the zone, and the block without transaction main hands over.
UserBlocks == {UserBlock(Domain(DomainIdentity, MinerKey))}

\* Chain::is_waiting_signers.  The count is a u64: below zero it wraps to a
\* number above BLOCK_SIGNERS_MIN.
is_waiting_signers ==
    /\ IsSome(last_full_block)
    /\ get_height >= Unwrap(last_full_block).index
    /\ get_height - Unwrap(last_full_block).index < BLOCK_SIGNERS_MIN

\* The subtraction of is_waiting_signers underflows: a build with overflow
\* checks panics there, holding the lock of the context.
WaitingUnderflows ==
    IsSome(last_full_block) /\ SignCountUnderflows(Unwrap(last_full_block))

\* Chain::update_sign_block_for_mining
update_sign_block_for_mining(block) ==
    IF last_full_block = None THEN None
    ELSE IF ~is_waiting_signers THEN None
    ELSE IF last_block = None THEN None
    ELSE Some([block EXCEPT !.index = Unwrap(last_block).index + 1,
                            !.prev_block_hash = Unwrap(last_block).hash])

\* A worker thread: the attempt (call of mine_internal) that spawned it, its
\* number, its job, where it stands in find_hash and its local `block`.
\*   "top"    at the top of the loop of find_hash
\*   "sleep"  in the sleep of 5 s
\*   "hash"   in the loop over the nonces
\*   "found"  back in the closure with a block, before it locks the context
Thread(attempt, cpu, job, pc, block) ==
    [attempt |-> attempt, cpu |-> cpu, job |-> job, pc |-> pc, block |-> block]

\* The job is a signing job for mine_internal.
SigningPath(job) == job.block.index > 0 /\ job.block.prev_block_hash # EmptyBytes

\* Miner::mine_internal on the miner `m`, which the scheduler left with
\* `mining` set.
mine_internal(m, job) ==
    LET signing == SigningPath(job)
        keyed == [job.block EXCEPT !.pub_key = job.keystore]
        updated == update_sign_block_for_mining(keyed)
        block == IF signing THEN Unwrap(updated)
                 ELSE [job.block EXCEPT
                          !.index = get_height + 1,
                          !.prev_block_hash =
                              IF last_block = None THEN EmptyBytes
                              ELSE Unwrap(last_block).hash]
        attempt == m.attempts + 1
        mined == MineJob(job.start, block, job.keystore)
    IN  IF signing /\ ~check_public_key_strength(job.keystore, KEYSTORE_DIFFICULTY)
        THEN [m EXCEPT !.mining = FALSE, !.attempts = attempt]
        ELSE IF signing /\ updated = None
        THEN [m EXCEPT !.mining = FALSE, !.attempts = attempt]
        ELSE [m EXCEPT
                 !.attempts = attempt,
                 !.miner_state = MinerState(TRUE, is_full(job)),
                 !.threads = @ \cup {Thread(attempt, cpu, mined, "top", block) :
                                        cpu \in 1..m.workers}]

\* mine_internal with the job: it starts the workers, or a build with
\* overflow checks panics in update_sign_block_for_mining.
Starts(m, job) ==
    \/ /\ miner' = mine_internal(m, job)
       /\ UNCHANGED status
    \/ /\ SigningPath(job)
       /\ WaitingUnderflows
       /\ status' = "panicked"
       /\ UNCHANGED miner

\* Line 192 of run_main_loop: the scheduler forgets its job once `mining`
\* is clear.
Current == IF miner.mining THEN miner.current_job ELSE None

\* get_sign_block as the scheduler calls it, and the queue with the job it
\* pushes for a template; `offset` is the random part of the start.
AskSignBlock == get_sign_block(Some(MinerKey), max_height, clock)

PushSignJob(jobs, s, offset) ==
    IF s.block = None THEN jobs
    ELSE Append(jobs, MineJob(clock + offset, Unwrap(s.block), MinerKey))

\* The scheduler's query, from either branch: the job is pushed behind the
\* queue `jobs`, and a query that does not return ends the process.
SchedulerAsks(jobs) ==
    \E s \in {AskSignBlock}, offset \in StartOffsets :
        /\ Len(jobs) < MaxJobs
        /\ \/ /\ miner' = [miner EXCEPT
                              !.jobs = IF s.end = "return"
                                       THEN PushSignJob(jobs, s, offset) ELSE jobs,
                              !.current_job = Current]
              /\ signers' = IF s.end = "return" THEN s.cache ELSE signers
              /\ status' = IF s.end = "return" THEN "running"
                           ELSE IF s.end = "hang" THEN "hung" ELSE "panicked"
           \/ /\ s.underflow
              /\ status' = "panicked"
              /\ UNCHANGED <<miner, signers>>

\* run_main_loop without a current job and with a due job at the head of
\* the queue (lines 164-171): the job starts.
StartJob ==
    /\ status = "running"
    /\ miner.running
    /\ miner.sched = "loop"
    /\ Current = None
    /\ miner.jobs # <<>>
    /\ is_due(miner.jobs[1], clock)
    /\ miner.attempts < MaxAttempts
    /\ Starts([miner EXCEPT !.jobs = Tail(@),
                             !.mining = TRUE,
                             !.current_job = Some(miner.jobs[1])],
              miner.jobs[1])
    /\ UNCHANGED <<zone_names, origin, blocks, domains, zones, last_block, last_full_block,
                   signers, lastOp, clock>>

\* run_main_loop without a current job otherwise (lines 172-190): a job
\* that is not due goes back to the head of the queue, and with an empty
\* queue the scheduler asks get_sign_block.
SchedulerIdle ==
    /\ status = "running"
    /\ miner.running
    /\ miner.sched = "loop"
    /\ Current = None
    /\ IF miner.jobs # <<>>
       THEN /\ ~is_due(miner.jobs[1], clock)
            /\ miner' = [miner EXCEPT !.current_job = None]
            /\ UNCHANGED <<signers, status>>
       ELSE SchedulerAsks(miner.jobs)
    /\ UNCHANGED <<zone_names, origin, blocks, domains, zones, last_block, last_full_block,
                   lastOp, clock>>

\* run_main_loop while a payload job is mined and a due signing job is at
\* the head of the queue (lines 123-134): it clears `mining` and sleeps
\* 100 ms holding the lock of jobs.
PreemptClear ==
    /\ status = "running"
    /\ miner.running
    /\ miner.sched = "loop"
    /\ Current # None
    /\ is_full(Unwrap(Current))
    /\ miner.jobs # <<>>
    /\ is_signing(miner.jobs[1])
    /\ is_due(miner.jobs[1], clock)
    /\ miner.attempts < MaxAttempts
    /\ miner' = [miner EXCEPT !.mining = FALSE, !.sched = "drain",
                              !.cancelled = @ \cup {miner.attempts}]
    /\ UNCHANGED <<zone_names, origin, blocks, domains, zones, last_block, last_full_block,
                   signers, status, lastOp, clock>>

\* run_main_loop while a payload job is mined otherwise (lines 142-161):
\* unless a signing job is at the head of the queue, the scheduler asks
\* get_sign_block.
SchedulerBusy ==
    /\ status = "running"
    /\ miner.running
    /\ miner.sched = "loop"
    /\ Current # None
    /\ is_full(Unwrap(Current))
    /\ ~(miner.jobs # <<>> /\ is_signing(miner.jobs[1]))
    /\ SchedulerAsks(miner.jobs)
    /\ UNCHANGED <<zone_names, origin, blocks, domains, zones, last_block, last_full_block,
                   lastOp, clock>>

\* The end of the sleep (lines 136-141): the payload job goes back to the
\* front of the queue and the signing job starts.  In 100 ms every worker
\* that is not in its sleep of 5 s has looked at `mining`.
PreemptStart ==
    /\ status = "running"
    /\ miner.sched = "drain"
    /\ \A t \in miner.threads : t.pc = "sleep"
    /\ Starts([miner EXCEPT
                  !.jobs = <<Unwrap(miner.current_job)>> \o Tail(@),
                  !.mining = TRUE,
                  !.current_job = Some(miner.jobs[1]),
                  !.sched = "loop"],
              miner.jobs[1])
    /\ UNCHANGED <<zone_names, origin, blocks, domains, zones, last_block, last_full_block,
                   signers, lastOp, clock>>

\* Miner::add_block, while the queue is shorter than `limit`.
MinerAddBlockOf(limit) ==
    /\ status = "running"
    /\ ~JobsLocked
    /\ Len(miner.jobs) < limit
    /\ \E block \in UserBlocks :
          miner' = [miner EXCEPT
                       !.jobs = Append(IF block.transaction = None
                                       THEN SelectSeq(@, is_full) ELSE @,
                                       MineJob(0, block, MinerKey))]
    /\ UNCHANGED <<zone_names, origin, blocks, domains, zones, last_block, last_full_block,
                   signers, status, lastOp, clock>>

MinerAddBlock == MinerAddBlockOf(MaxJobs)

\* The miner without the thread t, which ended with None: the last thread
\* of its attempt clears miner_state.mining (lines 264-273).
Cancelled(m, t) ==
    [m EXCEPT
        !.threads = @ \ {t},
        !.miner_state = IF \E u \in m.threads \ {t} : u.attempt = t.attempt
                        THEN @ ELSE MinerState(FALSE, @.full)]

\* find_hash at the top of its loop (lines 309-327), out of the sleep or
\* not: it reads the tip and is_waiting_signers under the lock, then
\* `mining`.
WorkerRead ==
    /\ status = "running"
    /\ \E t \in miner.threads :
          /\ t.pc \in {"top", "sleep"}
          /\ \/ /\ \E block \in {IF last_block = None THEN t.block
                                   ELSE [t.block EXCEPT
                                            !.index = Unwrap(last_block).index + 1,
                                            !.prev_block_hash = Unwrap(last_block).hash]} :
                        miner' =
                            IF ~miner.mining THEN Cancelled(miner, t)
                            ELSE [miner EXCEPT
                                     !.threads = (@ \ {t}) \cup
                                         {Thread(t.attempt, t.cpu, t.job,
                                                 IF is_full(t.job) /\ is_waiting_signers
                                                 THEN "sleep" ELSE "hash",
                                                 block)}]
                /\ UNCHANGED status
             \/ /\ WaitingUnderflows
                /\ status' = "panicked"
                /\ UNCHANGED miner
    /\ UNCHANGED <<zone_names, origin, blocks, domains, zones, last_block, last_full_block,
                   signers, lastOp, clock>>

\* The block find_hash returns: the nonce search stops at the difficulty of
\* the template.
Found(t) ==
    Mined(t.block.index, clock, CHAIN_VERSION, t.block.difficulty,
          t.block.difficulty, t.block.prev_block_hash, t.block.pub_key,
          t.block.transaction, Seed)

\* find_hash in the loop over the nonces (lines 332-375): it sees `mining`
\* clear, or finds the hash, or sees after a second that the chain reached
\* the index it mines.
WorkerHashOf(top) ==
    /\ status = "running"
    /\ \E t \in miner.threads :
          /\ t.pc = "hash"
          /\ \/ /\ ~miner.mining
                /\ miner' = Cancelled(miner, t)
             \/ /\ miner.mining
                /\ t.block.index <= top
                /\ miner' = [miner EXCEPT
                                !.threads = (@ \ {t}) \cup
                                    {Thread(t.attempt, t.cpu, t.job, "found", Found(t))}]
             \/ /\ miner.mining
                /\ t.block.index > 1
                /\ get_height >= t.block.index
                /\ miner' =
                      IF is_full(t.job)
                      THEN [miner EXCEPT
                               !.threads = (@ \ {t}) \cup
                                   {Thread(t.attempt, t.cpu, t.job, "top", t.block)}]
                      ELSE Cancelled([miner EXCEPT !.mining = FALSE], t)
    /\ UNCHANGED <<zone_names, origin, blocks, domains, zones, last_block, last_full_block,
                   signers, status, lastOp, clock>>

WorkerHash == WorkerHashOf(BootLength + MaxMined)

\* The closure of mine_internal with the block found (lines 274-295): under
\* the lock of the context it signs the block, asks check_new_block, adds
\* the block when the answer is Good, and clears miner_state.mining and
\* `mining`.  Where the signature count underflows a build with overflow
\* checks panics instead.
WorkerSubmit ==
    /\ status = "running"
    /\ \E t \in miner.threads :
          /\ t.pc = "found"
          /\ \E v \in {check_new_block(t.block, clock)} :
             \E c \in {v} \cup (IF v.underflow
                                 THEN {Verdict("Panic", v.cache, TRUE)} ELSE {}) :
                \E a \in {IF c.quality = "Good"
                          THEN add_block(t.block, blocks, domains, zones, last_full_block)
                          ELSE [blocks |-> blocks, domains |-> domains,
                                zones |-> zones, last_block |-> last_block,
                                last_full_block |-> last_full_block]} :
                   /\ blocks' = a.blocks
                   /\ domains' = a.domains
                   /\ zones' = a.zones
                   /\ last_block' = a.last_block
                   /\ last_full_block' = a.last_full_block
                   /\ signers' = IF c.quality \in {"Hang", "Panic"} THEN signers
                                 ELSE c.cache
                   /\ status' = IF c.quality = "Hang" THEN "hung"
                                ELSE IF c.quality = "Panic" THEN "panicked"
                                ELSE "running"
                   /\ miner' =
                         IF c.quality \in {"Hang", "Panic"} THEN miner
                         ELSE [miner EXCEPT
                                  !.threads = @ \ {t},
                                  !.mining = FALSE,
                                  !.miner_state = MinerState(FALSE, @.full),
                                  !.appended = IF c.quality = "Good"
                                               THEN Append(@, t.attempt) ELSE @]
                   /\ lastOp' = [op |-> "mined", block |-> t.block,
                                 attempt |-> t.attempt, quality |-> c.quality]
    /\ UNCHANGED <<origin, clock, zone_names>>

\* Time passes.
Tick ==
    /\ status = "running"
    /\ clock < StartClock + MaxTicks * BLOCK_SIGNERS_START_RANDOM
    /\ clock' = clock + BLOCK_SIGNERS_START_RANDOM
    /\ UNCHANGED <<zone_names, origin, blocks, domains, zones, last_block, last_full_block,
                   signers, status, lastOp, miner>>

\* The blocks the network thread hands to the engine for the slots `slots`:
\* signing blocks of two elected keys that are not the miner's.
NetSignKeys == {3, 4}
NetCandidatesAt(slots, keys) ==
    {Candidate(i, clock, PrevHash(i), k, None) : i \in slots, k \in keys}

\* For the tip's slot and the one after it.
NetCandidates == NetCandidatesAt(TipSlots, NetSignKeys)

NetAdd == AddBlockOf(NetCandidates, {clock}, BootLength + MaxMined)
NetReplace == ReplaceBlockOf(NetCandidates, {clock})

NextMiner ==
    \/ MinerAddBlock
    \/ StartJob
    \/ SchedulerIdle
    \/ PreemptClear
    \/ SchedulerBusy
    \/ PreemptStart
    \/ WorkerRead
    \/ WorkerHash
    \/ WorkerSubmit
    \/ Tick
    \/ NetAdd
    \/ NetReplace

\* The store once the network added the zone of ZoneKey and the first of
\* the two signing blocks it waits for.
WaitingChain ==
    LET zone == Candidate(BootLength + 1, 0, BootChain(BootLength)[BootLength].hash,
                          ZoneKey, Zone(ZoneIdentity, ZoneKey))
        sign == Candidate(BootLength + 2, 0, zone.hash, 3, None)
    IN  BootChain(BootLength) \o <<zone, sign>>

InitMinerWith(threads) ==
    /\ origin = BootChain(1)[1].hash
    /\ blocks = WaitingChain
    /\ domains = <<>>
    /\ zones = <<RowOf(BootLength + 1, 0, Unwrap(WaitingChain[BootLength + 1].transaction))>>
    /\ last_block = Some(WaitingChain[BootLength + 2])
    /\ last_full_block = Some(WaitingChain[BootLength + 1])
    /\ signers = EmptyCache
    /\ status = "running"
    /\ lastOp = [op |-> "new"]
    /\ miner = MinerLooping(threads)
    /\ clock = StartClock
    /\ zone_names = {}

InitMiner == InitMinerWith(Threads)

SpecMiner == InitMiner /\ [][NextMiner]_vars

\* The miner while the network also offers blocks for the slot below the
\* tip, within one tick of the clock.
ForkSlots == ((Len(blocks) - 1)..(Len(blocks) + 1)) \ (0..BootLength)
ForkAdd == AddBlockOf(NetCandidatesAt(ForkSlots, {4}), {clock},
                      BootLength + MaxMined)
ForkReplace == ReplaceBlockOf(NetCandidatesAt(ForkSlots, {3}), {clock})
ForkAddBlock == MinerAddBlockOf(1)

NextMinerForked ==
    \/ ForkAddBlock
    \/ StartJob
    \/ WorkerRead
    \/ WorkerHash
    \/ WorkerSubmit
    \/ ForkAdd
    \/ ForkReplace

SpecMinerForked == InitMiner /\ [][NextMinerForked]_vars

\* The signing jobs of the queue.
SigningJobs == {i \in 1..Len(miner.jobs) : is_signing(miner.jobs[i])}

\* C28: in every reachable state of the miner the queue holds at most one
\* signing job.
C28_OneSigningJob == Cardinality(SigningJobs) <= 1

\* Miner::add_block with a payload block removes nothing: the queue it
\* leaves is the old one with the job behind it.
PayloadJobKeepsQueue ==
    [][(/\ Len(miner'.jobs) = Len(miner.jobs) + 1
        /\ miner'.jobs[Len(miner'.jobs)].start = 0
        /\ is_full(miner'.jobs[Len(miner'.jobs)]))
       => SubSeq(miner'.jobs, 1, Len(miner.jobs)) = miner.jobs]_vars

\* C30: once the scheduler has started the signing job, no worker of the
\* payload attempt it cancelled is left: the workers of a cancelled attempt
\* live only while the scheduler sleeps its 100 ms.
C30_CancelDrains ==
    \A t \in miner.threads : t.attempt \in miner.cancelled => miner.sched = "drain"

\* A worker of a cancelled attempt appended a block.
CancelledAppends ==
    /\ lastOp.op = "mined"
    /\ lastOp.quality = "Good"
    /\ lastOp.attempt \in miner.cancelled

\* A worker of a cancelled attempt cleared `mining` while the job that took
\* its place was mined.
CancelledClears ==
    /\ lastOp.op = "mined"
    /\ lastOp.attempt \in miner.cancelled
    /\ ~miner.mining
    /\ \E t \in miner.threads : t.attempt \notin miner.cancelled /\ t.pc = "hash"

\* The scheduler's query changes the state: it pushes a job, ends the
\* process, fills the signer cache or forgets the job that ended.
AskChanges ==
    \/ AskSignBlock.end # "return"
    \/ AskSignBlock.block # None
    \/ AskSignBlock.underflow
    \/ AskSignBlock.cache # signers
    \/ miner.current_job # Current

\* ENABLED <<SchedulerBusy>>_vars, ENABLED <<SchedulerIdle>>_vars and
\* ENABLED <<WorkerSubmit>>_vars as state predicates.
BusyEnabled ==
    /\ status = "running"
    /\ miner.sched = "loop"
    /\ Current # None
    /\ is_full(Unwrap(Current))
    /\ ~(miner.jobs # <<>> /\ is_signing(miner.jobs[1]))
    /\ Len(miner.jobs) < MaxJobs
    /\ AskChanges

IdleEnabled ==
    /\ status = "running"
    /\ miner.sched = "loop"
    /\ Current = None
    /\ IF miner.jobs # <<>>
       THEN ~is_due(miner.jobs[1], clock) /\ miner.current_job # None
       ELSE AskChanges

SubmitEnabled ==
    /\ status = "running"
    /\ \E t \in miner.threads : t.pc = "found"

\* The scheduler thread and the worker threads keep running and time
\* passes; nothing makes the user or the network act.  Weak fairness of the
\* three steps that call into the engine is written out with their enabling
\* conditions.
FairMiner ==
    /\ WF_vars(StartJob)
    /\ WF_vars(PreemptClear)
    /\ WF_vars(PreemptStart)
    /\ WF_vars(WorkerRead)
    /\ WF_vars(WorkerHash)
    /\ WF_vars(Tick)
    /\ ([]<>~BusyEnabled) \/ ([]<><<SchedulerBusy>>_vars)
    /\ ([]<>~IdleEnabled) \/ ([]<><<SchedulerIdle>>_vars)
    /\ ([]<>~SubmitEnabled) \/ ([]<><<WorkerSubmit>>_vars)

SpecMinerFair == SpecMiner /\ FairMiner

\* A payload job is mined and a due signing job is in the queue (and the
\* model has an attempt left for it).
DueSigningWaits ==
    /\ status = "running"
    /\ miner.sched = "loop"
    /\ miner.attempts < MaxAttempts
    /\ Current # None
    /\ is_full(Unwrap(Current))
    /\ \E i \in SigningJobs : is_due(miner.jobs[i], clock)

\* The scheduler started a signing job and the payload job it cancelled is
\* at the front of the queue.
SigningReplaced ==
    /\ miner.current_job # None
    /\ is_signing(Unwrap(miner.current_job))
    /\ miner.cancelled # {}
    /\ miner.jobs # <<>>
    /\ is_full(miner.jobs[1])

\* C29: while a payload job is mined with a due signing job in the queue, at
\* whatever position, the scheduler eventually cancels the payload attempt,
\* puts its job back at the front and starts the signing job - unless the
\* payload attempt ends first or the process ends.
C29_Preemption ==
    DueSigningWaits ~> (SigningReplaced \/ ~miner.mining \/ status # "running")

\* The same for a due signing job at the head of the queue.
PreemptionAtHead ==
    (DueSigningWaits /\ is_signing(miner.jobs[1]) /\ is_due(miner.jobs[1], clock))
        ~> (SigningReplaced \/ ~miner.mining \/ status # "running")

\* A signing job that is mined is not preempted: while `mining` stays set
\* the scheduler keeps the job.
SigningNotPreempted ==
    [][(/\ miner.mining /\ miner.current_job # None
        /\ is_signing(Unwrap(miner.current_job))
        /\ miner'.mining)
       => (miner'.current_job = miner.current_job /\ miner'.sched = "loop")]_vars

\* Fewer than BLOCK_SIGNERS_MIN blocks sit on top of the last payload block
\* of the store.
StoreWaitsSigners ==
    \E f \in {QueryLastFull(Len(blocks), None)} :
        IsSome(f) /\ Len(blocks) - Unwrap(f).index < BLOCK_SIGNERS_MIN

\* A worker appends a payload block in this step.
MinerAppendsPayload ==
    /\ miner'.appended # miner.appended
    /\ is_some_transaction(lastOp'.block)

\* C27: the miner appends a payload block it mined only in a state in
\* which at least BLOCK_SIGNERS_MIN blocks sit on top of the previous
\* payload block and is_waiting_signers is false.
C27_NoPayloadStacking ==
    [][MinerAppendsPayload => (~StoreWaitsSigners /\ ~is_waiting_signers)]_vars

\* The same for the appends made while the tip caches agree with the store.
NoStackingCoherent ==
    [][(MinerAppendsPayload /\ CachesCoherent)
       => (~StoreWaitsSigners /\ ~is_waiting_signers)]_vars

-----------------------------------------------------------------------------
(* Two workers for each attempt.                                             *)

\* settings.mining.threads, and how far the store grows above the signing
\* blocks: two signing blocks on top of the miner's first block, and its
\* second.
PairThreads == 2
PairMined == 7

PairAddBlock == MinerAddBlockOf(1)
PairHash == WorkerHashOf(BootLength + PairMined)
PairAdd == AddBlockOf(NetCandidatesAt({Len(blocks) + 1}, NetSignKeys), {clock},
                      BootLength + PairMined)

NextMinerPair ==
    \/ PairAddBlock
    \/ StartJob
    \/ WorkerRead
    \/ PairHash
    \/ WorkerSubmit
    \/ PairAdd

InitPair == InitMinerWith(PairThreads)

SpecMinerPair == InitPair /\ [][NextMinerPair]_vars

\* C26: at most one worker of an attempt appends a block.
C26_OneAppendPerAttempt ==
    \A i, j \in 1..Len(miner.appended) :
        miner.appended[i] = miner.appended[j] => i = j

\* A worker appends its block only where check_new_block answers Good for
\* it in the state in which add_block runs, and the block goes on top of
\* the store: no stored block is replaced.
SubmitRevalidated ==
    [][miner'.appended # miner.appended
       => (/\ check_new_block(lastOp'.block, clock).quality = "Good"
           /\ lastOp'.block.index = Len(blocks) + 1
           /\ Len(blocks') = Len(blocks) + 1
           /\ SubSeq(blocks', 1, Len(blocks)) = blocks
           /\ blocks'[Len(blocks')].hash = lastOp'.block.hash)]_vars

\* Both workers of an attempt found a block, and the second to ask was
\* refused.
SecondWorkerRefused ==
    /\ lastOp.op = "mined"
    /\ lastOp.quality # "Good"
    /\ miner.appended # <<>>
    /\ lastOp.attempt = miner.appended[Len(miner.appended)]

-----------------------------------------------------------------------------
(* The tip caches, the signature count and the verdict Good.                *)

\* C33: after Chain::new and after each completed add_block, replace_block
\* and check_chain, last_block is the highest block of the store and
\* last_full_block its highest payload block.
C33_TipCachesCoherent ==
    (status = "running"
     /\ lastOp.op \in {"new", "add_block", "replace_block", "check_chain"})
        => (last_block = load_last_block /\ last_full_block = LastFull)

\* C35: last_full_block, when present, is not above the height, so the
\* unsigned subtraction get_height() - last_full_block.index does not
\* underflow.
C35_NoUnderflow ==
    IsSome(last_full_block) => Unwrap(last_full_block).index <= get_height

\* The blocks check_new_block is asked about: those for every slot up to
\* the one after the tip, and blocks that state the index 0.
IndexProbes == Candidates \cup CandidatesAt({0})

\* C34: check_new_block answers Good only for a block whose index is
\* get_height() + 1.
C34_GoodMeansTipExtension ==
    \A block \in IndexProbes, now \in ClockNow(Times) :
        check_new_block(block, now).quality = "Good"
            => block.index = get_height + 1

\* A block at or below the tip that is judged Good takes the place of no
\* stored block: the store has no block of its index.
GoodBelowTipIsUnstored ==
    \A block \in IndexProbes, now \in ClockNow(Times) :
        (check_new_block(block, now).quality = "Good"
         /\ block.index <= get_height)
            => get_block(block.index) = None

\* C32: for every stored payload block F with BLOCK_SIGNERS_START <=
\* F.index <= height, get_block_signers(F) returns: it neither aborts nor
\* loops for ever.
C32_ElectionTerminates ==
    \A f \in 1..Len(blocks) :
        (/\ status = "running"
         /\ Payload(f)
         /\ BLOCK_SIGNERS_START <= f
         /\ f <= get_height)
        => get_block_signers(blocks[f], signers).end = "return"

\* The election of a payload block at index 1 aborts, and the election of
\* one that has fewer than BLOCK_SIGNERS_ALL other keys below it never ends.
ElectionAborts ==
    \E f \in 1..Len(blocks) :
        /\ status = "running"
        /\ Payload(f)
        /\ f <= get_height
        /\ get_block_signers(blocks[f], signers).end = "panic"

ElectionNeverEnds ==
    \E f \in 1..Len(blocks) :
        /\ status = "running"
        /\ Payload(f)
        /\ f <= get_height
        /\ get_block_signers(blocks[f], signers).end = "hang"

\* With BLOCK_SIGNERS_ALL other keys in the blocks below F the election of
\* the window's seed returns.
ElectionReturnsOnBoot ==
    \A f \in 1..Len(blocks) :
        (/\ status = "running"
         /\ Payload(f)
         /\ f <= get_height
         /\ signers = EmptyCache)
        => get_block_signers(blocks[f], signers).end = "return"

\* C37: every stored block above the first has a timestamp that is not
\* below the timestamp of the block under it.
C37_TimestampsOrdered ==
    \A i \in 2..Len(blocks) : blocks[i].timestamp >= blocks[i - 1].timestamp

\* add_block on a block judged Good keeps the order: the block it appends
\* is not older than the tip it is appended to.
AppendKeepsOrder ==
    [][(lastOp'.op = "add_block" /\ Len(blocks') = Len(blocks) + 1 /\ Len(blocks) > 0
        /\ last_block = load_last_block)
       => blocks'[Len(blocks')].timestamp >= blocks[Len(blocks)].timestamp]_vars

\* The template completed as the miner completes it: the key of the
\* keystore, a timestamp, a nonce that reaches SIGNER_DIFFICULTY, the hash
\* and the signature.
Completed(template, key, timestamp) ==
    Mined(template.index, timestamp, CHAIN_VERSION, template.difficulty, template.difficulty,
          template.prev_block_hash, key, None, Seed)

\* The timestamps between the tip's and now + 60.
CompletionTimes(now) ==
    {Unwrap(last_block).timestamp, now, now + 60}

\* C39: whenever get_sign_block gives a key a template, the template
\* completed with that key, a timestamp between the tip's and now + 60, a
\* hash of SIGNER_DIFFICULTY and a valid signature is judged Good by
\* check_new_block in the same state.
C39_TemplateAcceptable ==
    status = "running"
    => \A keystore \in SignKeystores, max \in NetworkHeights, now \in SignClocks :
          \E g \in {get_sign_block(keystore, max, now)} :
              (g.end = "return" /\ IsSome(g.block))
              => \A timestamp \in CompletionTimes(now) :
                    check_block(Completed(Unwrap(g.block), Unwrap(keystore), timestamp),
                                last_block, last_full_block, now, last_full_block,
                                g.cache).quality = "Good"

\* C39: a signing block stands above the last payload block, and another
\* elected key gets a template whose completion is judged Good.
C39_Witness ==
    /\ status = "running"
    /\ IsSome(last_block)
    /\ IsSome(last_full_block)
    /\ Unwrap(last_full_block).index < get_height
    /\ \E keystore \in SignKeystores :
          \E g \in {get_sign_block(keystore, get_height, Unwrap(last_block).timestamp + 60)} :
              /\ g.end = "return"
              /\ IsSome(g.block)
              /\ check_block(Completed(Unwrap(g.block), Unwrap(keystore),
                                       Unwrap(last_block).timestamp),
                             last_block, last_full_block,
                             Unwrap(last_block).timestamp + 60, last_full_block,
                             g.cache).quality = "Good"

\* The scheduler has pushed a signing job with a start time.
SignJobPushed ==
    /\ Len(miner'.jobs) = Len(miner.jobs) + 1
    /\ is_signing(miner'.jobs[Len(miner'.jobs)])
    /\ miner'.jobs[Len(miner'.jobs)].start # 0

\* C40: every signing job the scheduler pushes has a start time d after the
\* moment it is pushed, 0 <= d < BLOCK_SIGNERS_START_RANDOM.
C40_StartNotBeforePush ==
    [][SignJobPushed
       => /\ miner'.jobs[Len(miner'.jobs)].start >= clock
          /\ miner'.jobs[Len(miner'.jobs)].start < clock + BLOCK_SIGNERS_START_RANDOM]_vars

\* The start time is less than BLOCK_SIGNERS_START_RANDOM away from the
\* moment of the push, on either side.
StartNearPush ==
    [][SignJobPushed
       => /\ miner'.jobs[Len(miner'.jobs)].start > clock - BLOCK_SIGNERS_START_RANDOM
          /\ miner'.jobs[Len(miner'.jobs)].start < clock + BLOCK_SIGNERS_START_RANDOM]_vars

-----------------------------------------------------------------------------
(* The threads of the miner: the scheduler thread statement by statement,   *)
(* the main thread in create_genesis_if_needed, and Miner::stop.            *)

\* Miner::start_mining_thread: the thread is spawned; it has not run yet.
StartMiningThread ==
    /\ status = "running"
    /\ miner.sched = "new"
    /\ miner' = [miner EXCEPT !.sched = "spawned", !.main = "started"]
    /\ UNCHANGED <<zone_names, origin, blocks, domains, zones, last_block, last_full_block,
                   signers, status, lastOp, clock>>

\* The first statement of run_main_loop (line 111).
SchedulerEnter ==
    /\ status = "running"
    /\ miner.sched = "spawned"
    /\ miner' = [miner EXCEPT !.running = TRUE, !.sched = "loop"]
    /\ UNCHANGED <<zone_names, origin, blocks, domains, zones, last_block, last_full_block,
                   signers, status, lastOp, clock>>

\* The test of the loop finds `running` clear (line 114): the thread ends.
SchedulerExit ==
    /\ status = "running"
    /\ miner.sched = "loop"
    /\ ~miner.running
    /\ miner' = [miner EXCEPT !.sched = "exited"]
    /\ UNCHANGED <<zone_names, origin, blocks, domains, zones, last_block, last_full_block,
                   signers, status, lastOp, clock>>

\* The test of the loop finds `running` set and there is no current job:
\* the thread takes the lock of jobs (line 164).  With a signing job being
\* mined it sleeps and tests again (lines 115-120); the jobs of these
\* specifications are signing jobs.
SchedulerLock ==
    /\ status = "running"
    /\ miner.sched = "loop"
    /\ miner.running
    /\ miner.current_job = None
    /\ miner' = [miner EXCEPT !.sched = "jobs"]
    /\ UNCHANGED <<zone_names, origin, blocks, domains, zones, last_block, last_full_block,
                   signers, status, lastOp, clock>>

\* With the lock of jobs and a job at the head of the queue (lines 165-177):
\* a due job starts, for which mine_internal locks the context; a job that
\* is not due goes back.  Then the thread waits on the condition variable,
\* which releases the lock of jobs.
SchedulerTake ==
    /\ status = "running"
    /\ miner.sched = "jobs"
    /\ miner.jobs # <<>>
    /\ IF is_due(miner.jobs[1], clock)
       THEN /\ ~ContextLocked
            /\ miner.attempts < MaxAttempts
            /\ Starts([miner EXCEPT !.jobs = Tail(@),
                                     !.mining = TRUE,
                                     !.current_job = Some(miner.jobs[1]),
                                     !.sched = "wait"],
                      miner.jobs[1])
       ELSE /\ miner' = [miner EXCEPT !.sched = "wait"]
            /\ UNCHANGED status
    /\ UNCHANGED <<zone_names, origin, blocks, domains, zones, last_block, last_full_block,
                   signers, lastOp, clock>>

\* With the lock of jobs and an empty queue (lines 178-188): the thread
\* locks the context, asks get_sign_block and pushes the job; then it waits
\* on the condition variable.
SchedulerQuery ==
    /\ status = "running"
    /\ miner.sched = "jobs"
    /\ miner.jobs = <<>>
    /\ ~ContextLocked
    /\ \E s \in {AskSignBlock}, offset \in StartOffsets :
          \/ /\ miner' = [miner EXCEPT
                             !.jobs = IF s.end = "return"
                                      THEN PushSignJob(@, s, offset) ELSE @,
                             !.sched = "wait"]
             /\ signers' = IF s.end = "return" THEN s.cache ELSE signers
             /\ status' = IF s.end = "return" THEN "running"
                          ELSE IF s.end = "hang" THEN "hung" ELSE "panicked"
          \/ /\ s.underflow
             /\ status' = "panicked"
             /\ UNCHANGED <<miner, signers>>
    /\ UNCHANGED <<zone_names, origin, blocks, domains, zones, last_block, last_full_block,
                   lastOp, clock>>

\* wait_timeout returns, after 30 s or a notification, once it has the lock
\* of jobs again, and the lock is dropped (lines 189-194); a job that is no
\* longer mined is forgotten.
SchedulerWake ==
    /\ status = "running"
    /\ miner.sched = "wait"
    /\ miner' = [miner EXCEPT !.sched = "loop",
                              !.current_job = IF miner.mining THEN @ ELSE None]
    /\ UNCHANGED <<zone_names, origin, blocks, domains, zones, last_block, last_full_block,
                   signers, status, lastOp, clock>>

\* Miner::stop, at any moment after start_mining_thread.
Stop ==
    /\ status = "running"
    /\ miner.sched # "new"
    /\ ~miner.quit
    /\ miner' = [miner EXCEPT !.mining = FALSE, !.running = FALSE, !.quit = TRUE]
    /\ UNCHANGED <<zone_names, origin, blocks, domains, zones, last_block, last_full_block,
                   signers, status, lastOp, clock>>

NextShutdown ==
    \/ StartMiningThread
    \/ SchedulerEnter
    \/ SchedulerExit
    \/ SchedulerLock
    \/ SchedulerTake
    \/ SchedulerQuery
    \/ SchedulerWake
    \/ Stop
    \/ Tick

\* The store of the miner's specification and a miner just made.
InitShutdown ==
    /\ origin = BootChain(1)[1].hash
    /\ blocks = WaitingChain
    /\ domains = <<>>
    /\ zones = <<RowOf(BootLength + 1, 0, Unwrap(WaitingChain[BootLength + 1].transaction))>>
    /\ last_block = Some(WaitingChain[BootLength + 2])
    /\ last_full_block = Some(WaitingChain[BootLength + 1])
    /\ signers = EmptyCache
    /\ status = "running"
    /\ lastOp = [op |-> "new"]
    /\ miner = MinerNew
    /\ clock = StartClock
    /\ zone_names = {}

SpecShutdown == InitShutdown /\ [][NextShutdown]_vars

\* The scheduler thread is scheduled again and again: each of its steps
\* that stays possible is taken.
QueryEnabled ==
    status = "running" /\ miner.sched = "jobs" /\ miner.jobs = <<>> /\ ~ContextLocked
TakeEnabled ==
    /\ status = "running"
    /\ miner.sched = "jobs"
    /\ miner.jobs # <<>>
    /\ is_due(miner.jobs[1], clock) => (~ContextLocked /\ miner.attempts < MaxAttempts)
FairScheduler ==
    /\ WF_vars(SchedulerEnter)
    /\ WF_vars(SchedulerExit)
    /\ WF_vars(SchedulerLock)
    /\ WF_vars(SchedulerWake)
    /\ ([]<>~QueryEnabled) \/ ([]<><<SchedulerQuery>>_vars)
    /\ ([]<>~TakeEnabled) \/ ([]<><<SchedulerTake>>_vars)

SpecShutdownFair == SpecShutdown /\ FairScheduler

\* C31: once Miner::stop has been called, the scheduler thread ends up
\* behind its loop.
C31_StopEndsLoop == miner.quit ~> miner.sched = "exited"

\* A stop that comes once the thread is in its loop ends it.
StopInLoopEndsLoop ==
    (miner.quit /\ ~miner.running /\ miner.sched # "spawned") ~> miner.sched = "exited"

\* create_genesis_if_needed finds no origin in the settings and no block in
\* the store (line 208); the keystore is loaded.
GenesisNeeded == origin = Zero32 /\ last_block = None

\* The first statement of create_genesis_if_needed (line 205): the main
\* thread locks the context.
GenesisLock ==
    /\ status = "running"
    /\ miner.main = "started"
    /\ miner' = [miner EXCEPT !.main = "genesis"]
    /\ UNCHANGED <<zone_names, origin, blocks, domains, zones, last_block, last_full_block,
                   signers, status, lastOp, clock>>

\* With the lock of the context the main thread calls Miner::add_block
\* (line 212), which locks jobs, pushes the block without transaction and
\* notifies the condition variable; the return releases both locks.
GenesisAddBlock ==
    /\ status = "running"
    /\ miner.main = "genesis"
    /\ GenesisNeeded
    /\ ~JobsLocked
    /\ miner' = [miner EXCEPT
                    !.jobs = Append(SelectSeq(@, is_full),
                                    MineJob(0, UserBlock(None), MinerKey)),
                    !.main = "done"]
    /\ UNCHANGED <<zone_names, origin, blocks, domains, zones, last_block, last_full_block,
                   signers, status, lastOp, clock>>

\* With an origin or a block there is nothing to mine: the return releases
\* the lock of the context.
GenesisSkip ==
    /\ status = "running"
    /\ miner.main = "genesis"
    /\ ~GenesisNeeded
    /\ miner' = [miner EXCEPT !.main = "done"]
    /\ UNCHANGED <<zone_names, origin, blocks, domains, zones, last_block, last_full_block,
                   signers, status, lastOp, clock>>

NextGenesis ==
    \/ StartMiningThread
    \/ SchedulerEnter
    \/ SchedulerExit
    \/ SchedulerLock
    \/ SchedulerTake
    \/ SchedulerQuery
    \/ SchedulerWake
    \/ Stop
    \/ GenesisLock
    \/ GenesisAddBlock
    \/ GenesisSkip
    \/ Tick

\* Chain::new on an empty store, with or without an origin, and Miner::new.
InitGenesis == Init

SpecGenesis == InitGenesis /\ [][NextGenesis]_vars

\* The scheduler thread holds the lock of jobs and waits for the lock of
\* the context; the main thread holds the lock of the context and waits for
\* the lock of jobs.
SchedulerWaitsForContext ==
    /\ miner.sched = "jobs"
    /\ ContextLocked
    /\ miner.jobs = <<>> \/ is_due(miner.jobs[1], clock)
MainWaitsForJobs == miner.main = "genesis" /\ GenesisNeeded /\ JobsLocked

\* C36: the scheduler thread and the thread in create_genesis_if_needed
\* never wait for each other's lock.
C36_NoMutualWait == ~(SchedulerWaitsForContext /\ MainWaitsForJobs)


-----------------------------------------------------------------------------
(* The cache of zone names.                                                 *)

\* The zones and heights is_zone_in_blockchain is asked about: the zone the
\* model's blocks declare and a zone no block declares.
ZoneProbes == {ZoneName, "y"}

\* Chain::is_zone_in_blockchain as is_domain_available and can_mine_domain
\* call it: a name found in the table is kept in Chain.zones.
IsZoneInBlockchain ==
    /\ status = "running"
    /\ \E height \in MineHeights, zone \in ZoneProbes :
          /\ zone_names' =
                IF /\ zone \notin zone_names
                   /\ is_id_in_blockchain(height, hash_zone_identity(zone), TRUE)
                THEN zone_names \cup {zone} ELSE zone_names
          /\ lastOp' = [op |-> "is_zone_in_blockchain", height |-> height,
                        zone |-> zone,
                        result |-> is_zone_in_blockchain(height, zone, zone_names)]
    /\ UNCHANGED <<origin, blocks, domains, zones, last_block, last_full_block,
                   signers, status, miner, clock>>

NextZoneCache ==
    \/ AddZoned
    \/ ReplaceZoned
    \/ CheckNewZoned
    \/ CheckChainZoned
    \/ IsZoneInBlockchain

SpecZoneCache == InitZoned /\ [][NextZoneCache]_vars

\* C38: is_zone_in_blockchain(height, zone) is true if and only if the
\* table zones holds a row of the zone's identity with id < height.
C38_ZoneCacheAgrees ==
    status = "running"
    => \A height \in MineHeights, zone \in ZoneProbes :
          is_zone_in_blockchain(height, zone, zone_names)
              <=> is_id_in_blockchain(height, hash_zone_identity(zone), TRUE)

\* Every zone name in the cache has a row of its identity in the table.
CachedZoneHasRow ==
    \A zone \in zone_names :
        \E i \in 1..Len(zones) : zones[i].identity = hash_zone_identity(zone)

\* With an empty cache the call answers what the table says, and it never
\* says true for a zone no block declared.
ZoneAnswerOnFirstCall ==
    [][(lastOp'.op = "is_zone_in_blockchain" /\ zone_names = {})
       => (lastOp'.result
             <=> is_id_in_blockchain(lastOp'.height,
                                     hash_zone_identity(lastOp'.zone), TRUE))]_vars

====
